---- MODULE Spec2Model ----
(***************************************************************************)
(* Lectern LMS: the template -> active module synchronisation of           *)
(* js/data-service-supabase.js over the relational schema of schema.sql.   *)
(*                                                                         *)
(* The database is one record of tables; every table is a set of rows.     *)
(* Every storage call of the data service is an operator from a database   *)
(* to a database.  Specification Spec runs each handler as one step;       *)
(* specification StepSpec runs syncToActiveModule and addDiscussionPost    *)
(* one storage call at a time, so that their calls interleave.             *)
(***************************************************************************)
EXTENDS Integers, Sequences, FiniteSets, TLC

VARIABLES
    db,        \* the database: a record of tables
    before,    \* the database when the latest syncToActiveModule call began
    call,      \* the arguments of the latest syncToActiveModule call
    result,    \* what the latest syncToActiveModule call returned
    failed,    \* the storage writes of the latest call that returned an error
    prevClean, \* whether the call before the latest one was a clean full run
    runs,      \* number of syncToActiveModule calls made so far
    faulty,    \* whether the storage layer has already failed a write
    sync,      \* StepSpec: where the running syncToActiveModule call is
    student,   \* StepSpec: where the student's addDiscussionPost / addReply is
    added,     \* StepSpec: the posts the student's calls have inserted
    op,        \* the latest data-service call: its name and its module id
    bucket,    \* BackupSpec: the objects of the backup worker's R2 bucket
    worker,    \* BackupSpec: the clock and where each backup run is
    auth,      \* AuthSpec: the session, the cached profile, the page's guard
    rival,     \* RaceSpec: the call that runs beside the stepwise sync
    edit,      \* the data-service calls in progress, one storage call per step
    client     \* the browser: localStorage, the retry loop, the ErrorHandler

vars == <<db, before, call, result, failed, prevClean, runs, faulty,
          sync, student, added, op, bucket, worker, auth, rival, edit,
          client>>

(***************************************************************************)
(* Bounds of the model.                                                    *)
(***************************************************************************)
MaxWeek == 2     \* week numbers are 1..MaxWeek
MaxItems == 2    \* pages per week and questions per page are 0..MaxItems
MaxRuns == 2     \* syncToActiveModule calls per behaviour

(***************************************************************************)
(* Values.  A column holds a string; SQL NULL and a missing JavaScript     *)
(* property are two distinguished strings, the empty string is itself.     *)
(***************************************************************************)
NULL == "<null>"
UNDEFINED == "<undefined>"

\* A nullable foreign key (discussion_posts.parent_id) that is NULL.
NoId == 0

\* JavaScript's  x || null : every falsy value becomes null.
OrNull(x) == IF x \in {"", NULL, UNDEFINED} THEN NULL ELSE x

\* JavaScript's  x || dflt .
OrElse(x, dflt) == IF x \in {"", NULL, UNDEFINED} THEN dflt ELSE x

ModuleIds == {"m1", "m2", "m3", "m4"}

TheRow(S) == CHOOSE r \in S : TRUE

Min2(a, b) == IF a < b THEN a ELSE b

(***************************************************************************)
(* Rows ordered by a numeric column (ties by id: insertion order).         *)
(***************************************************************************)
RowBefore(r, s, col) == r[col] < s[col] \/ (r[col] = s[col] /\ r.id < s.id)

FirstRow(S, col) == CHOOSE r \in S : \A s \in S \ {r} : RowBefore(r, s, col)

RECURSIVE OrderBy(_, _)
OrderBy(S, col) ==
    IF S = {} THEN <<>>
    ELSE LET r == FirstRow(S, col) IN <<r>> \o OrderBy(S \ {r}, col)

\* The sequence  <<f[1], ..., f[n]>>  of a function on 1..n.
SeqOf(f, n) == [i \in 1..n |-> f[i]]

\* The rows a batch insert adds: payload p[k] gets the id  first + k - 1.
InsertedRows(payloads, first) ==
    { [id |-> first + k - 1] @@ payloads[k] : k \in 1..Len(payloads) }

(***************************************************************************)
(* The initial database: template m1 (draft), its launched copy m2, and no *)
(* module m3.  The template's shape is free: its week numbers tW, pages    *)
(* per week tP, questions per page tQ, and the description tD of its weeks *)
(* (updateWeek stores a description as given, so it may be NULL, empty or  *)
(* a text).  The active module has week numbers aW; its week n has         *)
(* min(n, MaxItems) pages, its page i has min(i, MaxItems) questions, so   *)
(* that template collections are shorter than, as long as, and longer than *)
(* their active counterparts.  Students have posted on question 1 of every *)
(* active page and have progress on every active week.  A second launched  *)
(* copy of the template, m4, has one week with one page, and students of   *)
(* its own.                                                                *)
(***************************************************************************)
WeekRowId(m, n) == IF m = "m1" THEN n ELSE MaxWeek + n
PageRowId(w, i) == (w - 1) * MaxItems + i
ItemRowId(p, k) == (p - 1) * MaxItems + k

InitModules ==
    { [id |-> "m1", status |-> "draft", template_id |-> NULL,
       title |-> "Ethics (rev 2)", description |-> "T module desc",
       instructor |-> "Dr. T", duration |-> "8 weeks",
       participation |-> "weekly", time_expectations |-> "3h",
       launched_at |-> NULL, archived_at |-> NULL],
      [id |-> "m2", status |-> "launched", template_id |-> "m1",
       title |-> "Ethics", description |-> NULL,
       instructor |-> "Dr. A", duration |-> "6 weeks",
       participation |-> NULL, time_expectations |-> NULL,
       launched_at |-> "2024-09-01", archived_at |-> NULL],
      [id |-> "m4", status |-> "launched", template_id |-> "m1",
       title |-> "Ethics (spring)", description |-> "O module desc",
       instructor |-> "Dr. O", duration |-> "6 weeks",
       participation |-> NULL, time_expectations |-> NULL,
       launched_at |-> "2025-02-01", archived_at |-> NULL] }

InitZoom(tD) ==
    (IF tD = NULL THEN {}
     ELSE { [module_id |-> "m1", url |-> "https://zoom/t", meeting_id |-> "111",
             passcode |-> IF tD = "" THEN NULL ELSE "secret",
             day |-> "Monday", time |-> "19:00",
             timezone |-> IF tD = "" THEN "EST" ELSE "PST"] })
    \cup { [module_id |-> "m2", url |-> "https://zoom/a", meeting_id |-> "222",
            passcode |-> "old", day |-> "Friday", time |-> "18:00",
            timezone |-> "EST"],
           [module_id |-> "m4", url |-> "https://zoom/o", meeting_id |-> "444",
            passcode |-> NULL, day |-> "Tuesday", time |-> "17:00",
            timezone |-> "CST"] }

TWeekRows(tW, tD) ==
    { [id |-> WeekRowId("m1", n), module_id |-> "m1", week_number |-> n,
       title |-> "T week " \o ToString(n), description |-> tD,
       unlock_date |-> "2025-01-0" \o ToString(n)] : n \in tW }

AWeekRows(aW) ==
    { [id |-> WeekRowId("m2", n), module_id |-> "m2", week_number |-> n,
       title |-> "A week " \o ToString(n), description |-> "A desc",
       unlock_date |-> "2024-09-0" \o ToString(n)] : n \in aW }

APageCount(n) == Min2(n, MaxItems)
AQuestionCount(i) == Min2(i, MaxItems)

TPageRows(tW, tP) ==
    { [id |-> PageRowId(WeekRowId("m1", n), i), week_id |-> WeekRowId("m1", n),
       page_number |-> i, title |-> "T page " \o ToString(i),
       type |-> IF i % 2 = 1 THEN "discussion" ELSE "reading",
       content |-> IF i % 2 = 1 THEN "T content" ELSE NULL]
      : n \in tW, i \in 1..tP }

APageRows(aW) ==
    UNION { { [id |-> PageRowId(WeekRowId("m2", n), i),
               week_id |-> WeekRowId("m2", n), page_number |-> i,
               title |-> "A page " \o ToString(i), type |-> "intro",
               content |-> "A content"] : i \in 1..APageCount(n) } : n \in aW }

TQuestionRows(tW, tP, tQ) ==
    { [id |-> ItemRowId(p.id, k), page_id |-> p.id, question_number |-> k,
       text |-> "T question " \o ToString(k)]
      : p \in TPageRows(tW, tP), k \in 1..tQ }

AQuestionRows(aW) ==
    UNION { { [id |-> ItemRowId(p.id, k), page_id |-> p.id,
               question_number |-> k, text |-> "A question " \o ToString(k)]
              : k \in 1..AQuestionCount(p.page_number) } : p \in APageRows(aW) }

\* Template page 1 has two resources, the other template pages none.
TResourceRows(tW, tP) ==
    UNION { IF p.page_number # 1 THEN {}
            ELSE { [id |-> ItemRowId(p.id, 1), page_id |-> p.id,
                    title |-> "T reading", url |-> "https://t/r",
                    description |-> NULL, sort_order |-> 0],
                   [id |-> ItemRowId(p.id, 2), page_id |-> p.id,
                    title |-> "T handout", url |-> NULL,
                    description |-> "T res desc", sort_order |-> 1] }
            : p \in TPageRows(tW, tP) }

AResourceRows(aW) ==
    { [id |-> ItemRowId(p.id, 1), page_id |-> p.id, title |-> "A reading",
       url |-> "https://a/r", description |-> NULL, sort_order |-> 0]
      : p \in APageRows(aW) }

\* Template videos were written by createPage / updateWeek: a duration and
\* no description.
TVideoRows(tW, tP) ==
    { [id |-> p.id, page_id |-> p.id, title |-> "T lecture",
       url |-> "https://t/v", description |-> NULL, duration |-> "10:00",
       sort_order |-> 0] : p \in TPageRows(tW, tP) }

AVideoRows(aW) ==
    { [id |-> p.id, page_id |-> p.id, title |-> "A lecture",
       url |-> "https://a/v", description |-> NULL, duration |-> "05:00",
       sort_order |-> 0] : p \in APageRows(aW) }

\* A post by u1 and a reply to it by u2 on question 1 of every active page.
APostRows(aW) ==
    UNION { { [id |-> 2 * q.id - 1, question_id |-> q.id, user_id |-> "u1",
               parent_id |-> NoId, content |-> "a thought"],
              [id |-> 2 * q.id, question_id |-> q.id, user_id |-> "u2",
               parent_id |-> 2 * q.id - 1, content |-> "a reply"] }
            : q \in { x \in AQuestionRows(aW) : x.question_number = 1 } }

AProgressRows(aW) ==
    { [id |-> w.id, user_id |-> "u1", week_id |-> w.id, current_page |-> 1,
       completed |-> (w.week_number = 1),
       completed_at |-> IF w.week_number = 1 THEN "2024-09-08" ELSE NULL]
      : w \in AWeekRows(aW) }

\* The other launched copy m4: week 1 with one page, one question, one
\* resource, one video, a post and a progress row.
OWeekRows ==
    { [id |-> 2 * MaxWeek + 1, module_id |-> "m4", week_number |-> 1,
       title |-> "O week 1", description |-> "O desc",
       unlock_date |-> "2025-02-01"] }

OPageRows ==
    { [id |-> PageRowId(w.id, 1), week_id |-> w.id, page_number |-> 1,
       title |-> "O page 1", type |-> "intro", content |-> "O content"]
      : w \in OWeekRows }

OQuestionRows ==
    { [id |-> ItemRowId(p.id, 1), page_id |-> p.id, question_number |-> 1,
       text |-> "O question 1"] : p \in OPageRows }

OResourceRows ==
    { [id |-> ItemRowId(p.id, 1), page_id |-> p.id, title |-> "O reading",
       url |-> "https://o/r", description |-> NULL, sort_order |-> 0]
      : p \in OPageRows }

OVideoRows ==
    { [id |-> p.id, page_id |-> p.id, title |-> "O lecture",
       url |-> "https://o/v", description |-> NULL, duration |-> "07:00",
       sort_order |-> 0] : p \in OPageRows }

OPostRows ==
    { [id |-> 2 * q.id - 1, question_id |-> q.id, user_id |-> "u3",
       parent_id |-> NoId, content |-> "another thought"]
      : q \in OQuestionRows }

OProgressRows ==
    { [id |-> w.id, user_id |-> "u3", week_id |-> w.id, current_page |-> 1,
       completed |-> FALSE, completed_at |-> NULL] : w \in OWeekRows }

MaxRowId(S) == IF S = {} THEN 0 ELSE CHOOSE k \in { r.id : r \in S } :
                                         \A r \in S : r.id <= k

InitDb(tW, tP, tQ, tD, aW) ==
    LET weeks == TWeekRows(tW, tD) \cup AWeekRows(aW) \cup OWeekRows
        pages == TPageRows(tW, tP) \cup APageRows(aW) \cup OPageRows
        questions == TQuestionRows(tW, tP, tQ) \cup AQuestionRows(aW)
                       \cup OQuestionRows
        resources == TResourceRows(tW, tP) \cup AResourceRows(aW)
                       \cup OResourceRows
        videos == TVideoRows(tW, tP) \cup AVideoRows(aW) \cup OVideoRows
        posts == APostRows(aW) \cup OPostRows
    IN [ modules |-> InitModules,
         module_zoom_info |-> InitZoom(tD),
         weeks |-> weeks, pages |-> pages, questions |-> questions,
         resources |-> resources, videos |-> videos,
         discussion_posts |-> posts,
         progress |-> AProgressRows(aW) \cup OProgressRows,
         error_logs |-> {},
         \* the BIGSERIAL sequences: the next id of each table
         seq |-> [ weeks |-> MaxRowId(weeks) + 1, pages |-> MaxRowId(pages) + 1,
                   questions |-> MaxRowId(questions) + 1,
                   resources |-> MaxRowId(resources) + 1,
                   videos |-> MaxRowId(videos) + 1,
                   discussion_posts |-> MaxRowId(posts) + 1,
                   error_logs |-> 1,
                   \* modules 1..4 have been created (m3 was deleted)
                   modules |-> 5 ] ]

DescriptionValues == {NULL, "", "T desc"}

(***************************************************************************)
(* Storage calls: reads.                                                   *)
(***************************************************************************)
\* A property of a JavaScript object; a missing property reads undefined.
Prop(obj, name) == IF name \in DOMAIN obj THEN obj[name] ELSE UNDEFINED

\* getModule: the module row, or nothing (null).
GetModule(d, moduleId) == { m \in d.modules : m.id = moduleId }

\* getZoomInfo: {} (no property at all) when the module has no zoom row.
GetZoomInfo(d, moduleId) ==
    { [url |-> z.url, meetingId |-> z.meeting_id, passcode |-> z.passcode,
       schedule |-> [day |-> z.day, time |-> z.time, timezone |-> z.timezone]]
      : z \in { r \in d.module_zoom_info : r.module_id = moduleId } }

QuestionObjs(d, pageId) ==
    LET qs == OrderBy({ q \in d.questions : q.page_id = pageId }, "question_number")
    IN [k \in 1..Len(qs) |-> [id |-> qs[k].question_number, text |-> qs[k].text]]

ResourceObjs(d, pageId) ==
    LET rs == OrderBy({ r \in d.resources : r.page_id = pageId }, "sort_order")
    IN [k \in 1..Len(rs) |-> [id |-> rs[k].id, title |-> rs[k].title,
                              url |-> rs[k].url, description |-> rs[k].description]]

VideoObjs(d, pageId) ==
    LET vs == OrderBy({ v \in d.videos : v.page_id = pageId }, "sort_order")
    IN [k \in 1..Len(vs) |-> [id |-> vs[k].id, title |-> vs[k].title,
                              url |-> vs[k].url, duration |-> vs[k].duration]]

PageObjs(d, weekRowId) ==
    LET ps == OrderBy({ p \in d.pages : p.week_id = weekRowId }, "page_number")
    IN [i \in 1..Len(ps) |->
          [title |-> ps[i].title, type |-> ps[i].type, content |-> ps[i].content,
           questions |-> QuestionObjs(d, ps[i].id),
           resources |-> ResourceObjs(d, ps[i].id),
           videos |-> VideoObjs(d, ps[i].id)]]

\* getWeeks: the module's weeks by week number, each with its nested pages;
\* a week's id is its week number.
GetWeeks(d, moduleId) ==
    LET ws == OrderBy({ w \in d.weeks : w.module_id = moduleId }, "week_number")
    IN [j \in 1..Len(ws) |->
          [id |-> ws[j].week_number, moduleId |-> ws[j].module_id,
           title |-> ws[j].title, description |-> ws[j].description,
           unlockDate |-> ws[j].unlock_date, pages |-> PageObjs(d, ws[j].id)]]

\* select('id') ... .single(): the row when exactly one matches, else null.
Single(S) == IF Cardinality(S) = 1 THEN S ELSE {}

WeekRecord(d, moduleId, weekNumber) ==
    Single({ w \in d.weeks : w.module_id = moduleId /\ w.week_number = weekNumber })

ActivePagesList(d, weekRowId) ==
    OrderBy({ p \in d.pages : p.week_id = weekRowId }, "page_number")

ExistingQuestions(d, pageId) ==
    OrderBy({ q \in d.questions : q.page_id = pageId }, "question_number")

(***************************************************************************)
(* Storage calls: writes.  ON DELETE CASCADE and the UNIQUE constraints    *)
(* are those of schema.sql.                                                *)
(***************************************************************************)
Insert(d, table, payloads) ==
    [d EXCEPT ![table] = @ \cup InsertedRows(payloads, d.seq[table]),
              !.seq[table] = @ + Len(payloads)]

DeleteQuestionRows(d, ids) ==
    [d EXCEPT !.questions = { q \in @ : q.id \notin ids },
              !.discussion_posts = { x \in @ : x.question_id \notin ids }]

DeletePageRows(d, ids) ==
    LET qids == { q.id : q \in { x \in d.questions : x.page_id \in ids } }
        d1 == DeleteQuestionRows(d, qids)
    IN [d1 EXCEPT !.pages = { x \in @ : x.id \notin ids },
                  !.resources = { r \in @ : r.page_id \notin ids },
                  !.videos = { v \in @ : v.page_id \notin ids }]

DeleteWeekRows(d, ids) ==
    LET pids == { x.id : x \in { y \in d.pages : y.week_id \in ids } }
        d1 == DeletePageRows(d, pids)
    IN [d1 EXCEPT !.weeks = { w \in @ : w.id \notin ids },
                  !.progress = { g \in @ : g.week_id \notin ids }]

\* update ... .eq('id', moduleId): an undefined property is not in dbUpdates.
Keep(old, new) == IF new = UNDEFINED THEN old ELSE new

UpdateModuleRow(d, moduleId, u) ==
    [d EXCEPT !.modules =
        { IF m.id # moduleId THEN m
          ELSE [m EXCEPT !.title = Keep(@, u.title),
                         !.description = Keep(@, u.description),
                         !.instructor = Keep(@, u.instructor),
                         !.duration = Keep(@, u.duration),
                         !.participation = Keep(@, u.participation),
                         !.time_expectations = Keep(@, u.timeExpectations),
                         !.status = Keep(@, u.status),
                         !.archived_at = Keep(@, u.archivedAt)]
          : m \in @ }]

\* zoomData.schedule?.name
ScheduleProp(z, name) ==
    IF "schedule" \in DOMAIN z THEN Prop(z.schedule, name) ELSE UNDEFINED

\* updateZoomInfo: upsert on module_id.
UpsertZoomInfo(d, moduleId, z) ==
    LET row == [module_id |-> moduleId,
                url |-> OrNull(Prop(z, "url")),
                meeting_id |-> OrNull(Prop(z, "meetingId")),
                passcode |-> OrNull(Prop(z, "passcode")),
                day |-> OrNull(ScheduleProp(z, "day")),
                time |-> OrNull(ScheduleProp(z, "time")),
                timezone |-> OrElse(ScheduleProp(z, "timezone"), "EST")]
    IN [d EXCEPT !.module_zoom_info =
            { r \in @ : r.module_id # moduleId } \cup {row}]

\* The update without its module_id filter (not what the code does).
UpdateWeekOfAnyModule(d, moduleId, weekNumber, templateWeek) ==
    [d EXCEPT !.weeks =
        { IF w.week_number = weekNumber
          THEN [w EXCEPT !.title = templateWeek.title,
                         !.description = templateWeek.description,
                         !.unlock_date = templateWeek.unlockDate]
          ELSE w : w \in @ }]

\* update weeks set title, description, unlock_date
\*   where module_id = moduleId and week_number = weekNumber
UpdateWeekByNumber(d, moduleId, weekNumber, templateWeek) ==
    [d EXCEPT !.weeks =
        { IF w.module_id = moduleId /\ w.week_number = weekNumber
          THEN [w EXCEPT !.title = templateWeek.title,
                         !.description = templateWeek.description,
                         !.unlock_date = templateWeek.unlockDate]
          ELSE w : w \in @ }]

\* update pages set title, type, content where id = pageId
UpdatePageById(d, pageId, templatePage) ==
    [d EXCEPT !.pages =
        { IF x.id = pageId
          THEN [x EXCEPT !.title = templatePage.title,
                         !.type = templatePage.type,
                         !.content = templatePage.content]
          ELSE x : x \in @ }]

DeleteResourcesOfPage(d, pageId) ==
    [d EXCEPT !.resources = { r \in @ : r.page_id # pageId }]

DeleteVideosOfPage(d, pageId) ==
    [d EXCEPT !.videos = { v \in @ : v.page_id # pageId }]

\* update questions set text where id = questionId
UpdateQuestionText(d, questionId, text) ==
    [d EXCEPT !.questions =
        { IF q.id = questionId THEN [q EXCEPT !.text = text] ELSE q : q \in @ }]

\* UNIQUE(module_id, week_number) and the foreign key to modules.
WeekInsertable(d, moduleId, weekNumber) ==
    /\ GetModule(d, moduleId) # {}
    /\ ~ \E w \in d.weeks : w.module_id = moduleId /\ w.week_number = weekNumber

\* UNIQUE(week_id, page_number) and the foreign key to weeks.
PageInsertable(d, weekRowId, pageNumber) ==
    /\ \E w \in d.weeks : w.id = weekRowId
    /\ ~ \E x \in d.pages : x.week_id = weekRowId /\ x.page_number = pageNumber

\* The foreign key of questions, resources and videos to pages.
PageExists(d, pageId) == \E x \in d.pages : x.id = pageId

(***************************************************************************)
(* syncToActiveModule.  A run threads  st = [db, failed, thrown]  through  *)
(* its storage calls in program order.  F is the set of writes the storage *)
(* layer fails in this run: a failed write returns {error} and changes     *)
(* nothing.  A write is named by  <<kind, week number, page, question>>.   *)
(***************************************************************************)
Site(kind, n, i, k) == <<kind, n, i, k>>

Attempt(st, site, F, d2) ==
    IF site \in F THEN [st EXCEPT !.failed = @ \cup {site}]
    ELSE [st EXCEPT !.db = d2]

\* this.success(null, message): the error property is null (no element).
Success(message) ==
    [success |-> TRUE, data |-> NULL, message |-> message, error |-> {}]

\* this.error(message, code): the error property is {code, message}.
Error(message, code) ==
    [success |-> FALSE, data |-> NULL, message |-> message,
     error |-> {[code |-> code, message |-> message]}]

\* code.toLowerCase() of the codes the data service uses.
LowerCase(code) ==
    CASE code = "NOT_FOUND" -> "not_found"
      [] code = "INVALID_STATUS" -> "invalid_status"
      [] code = "SYNC_ERROR" -> "sync_error"
      [] code = "CREATE_ERROR" -> "create_error"
      [] code = "UPDATE_ERROR" -> "update_error"
      [] code = "VALIDATION_ERROR" -> "validation_error"
      [] code = "NO_TEMPLATE" -> "no_template"
      [] code = "TEMPLATE_NOT_FOUND" -> "template_not_found"
      [] code = "CONFLICT" -> "conflict"

\* this.error(message, code) also calls logError, which inserts a row into
\* error_logs (the admin is the current user).
LogError(d, message, code) ==
    Insert(d, "error_logs",
           << [error_type |-> "data_service_" \o LowerCase(code),
               error_message |-> message, user_id |-> "admin"] >>)

\* The checks without the last one, the status of the target (not what the
\* code does).
SyncPrecondition_NoTargetStatus(d, templateId, activeModuleId) ==
    LET template == GetModule(d, templateId)
        activeModule == GetModule(d, activeModuleId)
    IN IF template = {} THEN {Error("Template not found", "NOT_FOUND")}
       ELSE IF TheRow(template).status # "draft"
       THEN {Error("Source must be a template (draft module)", "INVALID_STATUS")}
       ELSE IF activeModule = {}
       THEN {Error("Active module not found", "NOT_FOUND")}
       ELSE {}

\* The checks before the first write: the error returned, or nothing.
SyncPrecondition(d, templateId, activeModuleId) ==
    LET template == GetModule(d, templateId)
        activeModule == GetModule(d, activeModuleId)
    IN IF template = {} THEN {Error("Template not found", "NOT_FOUND")}
       ELSE IF TheRow(template).status # "draft"
       THEN {Error("Source must be a template (draft module)", "INVALID_STATUS")}
       ELSE IF activeModule = {}
       THEN {Error("Active module not found", "NOT_FOUND")}
       ELSE IF TheRow(activeModule).status # "launched"
       THEN {Error("Target must be a launched module", "INVALID_STATUS")}
       ELSE {}

\* The updates with the template's status among them (not what the code
\* does).
ModuleInfoUpdatesWithStatus(template) ==
    [title |-> template.title, description |-> template.description,
     instructor |-> template.instructor, duration |-> template.duration,
     participation |-> template.participation,
     timeExpectations |-> template.time_expectations,
     status |-> template.status, archivedAt |-> UNDEFINED]

\* 1. updateModule(activeModuleId, {title, ..., timeExpectations})
ModuleInfoUpdates(template) ==
    [title |-> template.title, description |-> template.description,
     instructor |-> template.instructor, duration |-> template.duration,
     participation |-> template.participation,
     timeExpectations |-> template.time_expectations,
     status |-> UNDEFINED, archivedAt |-> UNDEFINED]

\* The payloads syncWeekContent inserts for a matched page.
SyncResourcePayloads(pageId, templatePage) ==
    [idx \in 1..Len(templatePage.resources) |->
        [page_id |-> pageId, title |-> templatePage.resources[idx].title,
         url |-> OrNull(templatePage.resources[idx].url),
         description |-> OrNull(templatePage.resources[idx].description),
         sort_order |-> idx - 1]]

SyncVideoPayloads(pageId, templatePage) ==
    [idx \in 1..Len(templatePage.videos) |->
        [page_id |-> pageId, title |-> templatePage.videos[idx].title,
         url |-> templatePage.videos[idx].url,
         description |-> OrNull(Prop(templatePage.videos[idx], "description")),
         duration |-> NULL,    \* not in the payload: the column default
         sort_order |-> idx - 1]]

\* existingQList.find(q => q.question_number === number)
FindQuestion(existingQList, number) ==
    LET js == { j \in 1..Len(existingQList) :
                  existingQList[j].question_number = number }
    IN IF js = {} THEN {}
       ELSE {existingQList[CHOOSE j \in js : \A j2 \in js : j <= j2]}

\* A matched question replaced by a fresh row (not what the code does).
SyncQuestionReplace(d, existingQ, templateQ) ==
    Insert(DeleteQuestionRows(d, {existingQ.id}), "questions",
           << [page_id |-> existingQ.page_id,
               question_number |-> existingQ.question_number,
               text |-> templateQ.text] >>)

\* A matched question: its text is updated in place, by row id.
SyncQuestionUpdate(d, existingQ, templateQ) ==
    UpdateQuestionText(d, existingQ.id, templateQ.text)

RECURSIVE QuestionUpdates(_, _, _, _, _, _, _)
QuestionUpdates(st, existingQList, templateQuestions, n, i, k, F) ==
    IF k > Len(templateQuestions) THEN st
    ELSE LET existingQ == FindQuestion(existingQList, k)
             st1 == IF existingQ = {} THEN st
                    ELSE Attempt(st, Site("questionUpdate", n, i, k), F,
                                 SyncQuestionUpdate(st.db, TheRow(existingQ),
                                                    templateQuestions[k]))
         IN QuestionUpdates(st1, existingQList, templateQuestions, n, i, k + 1, F)

\* Every template question from position k on inserted, matched or not (not
\* what the code does).
QuestionInsertsAll(pageId, existingQList, templateQuestions, k) ==
    [x \in 1..(Len(templateQuestions) - k + 1) |->
        [page_id |-> pageId, question_number |-> k + x - 1,
         text |-> templateQuestions[k + x - 1].text]]

\* The template questions with no active question of their number.
RECURSIVE QuestionInserts(_, _, _, _)
QuestionInserts(pageId, existingQList, templateQuestions, k) ==
    IF k > Len(templateQuestions) THEN <<>>
    ELSE (IF FindQuestion(existingQList, k) # {} THEN <<>>
          ELSE << [page_id |-> pageId, question_number |-> k,
                   text |-> templateQuestions[k].text] >>)
         \o QuestionInserts(pageId, existingQList, templateQuestions, k + 1)

\* The questions of one matched page: updates, then one batch insert.
SyncQuestions(st, pageId, templateQuestions, n, i, F) ==
    LET existingQList == ExistingQuestions(st.db, pageId)
        st1 == QuestionUpdates(st, existingQList, templateQuestions, n, i, 1, F)
        questionInserts == QuestionInserts(pageId, existingQList, templateQuestions, 1)
    IN IF Len(questionInserts) > 0
       THEN Attempt(st1, Site("questionsInsert", n, i, 0), F,
                    Insert(st1.db, "questions", questionInserts))
       ELSE st1

SyncResources(st, pageId, templatePage, n, i, F) ==
    LET st1 == [st EXCEPT !.db = DeleteResourcesOfPage(@, pageId)]
    IN IF Len(templatePage.resources) > 0
       THEN Attempt(st1, Site("resourcesInsert", n, i, 0), F,
                    Insert(st1.db, "resources", SyncResourcePayloads(pageId, templatePage)))
       ELSE st1

SyncVideos(st, pageId, templatePage, n, i, F) ==
    LET st1 == [st EXCEPT !.db = DeleteVideosOfPage(@, pageId)]
    IN IF Len(templatePage.videos) > 0
       THEN Attempt(st1, Site("videosInsert", n, i, 0), F,
                    Insert(st1.db, "videos", SyncVideoPayloads(pageId, templatePage)))
       ELSE st1

\* One matched page: page update, resources, videos, then questions.  An
\* error of the page update is logged and nothing else.
SyncPage(st, templatePage, activePage, n, i, F) ==
    LET st1 == Attempt(st, Site("pageUpdate", n, i, 0), F,
                       UpdatePageById(st.db, activePage.id, templatePage))
        st2 == SyncResources(st1, activePage.id, templatePage, n, i, F)
        st3 == SyncVideos(st2, activePage.id, templatePage, n, i, F)
    IN SyncQuestions(st3, activePage.id, templatePage.questions, n, i, F)

\* The active page whose page number is one more than the template page's
\* (not what the code does).
ActivePageAtNumber(activePagesList, i) ==
    { activePagesList[j] : j \in { x \in 1..Len(activePagesList) :
                                     activePagesList[x].page_number = i + 1 } }

\* activePagesList[i]: template page i is matched to the i-th active page.
ActivePageAt(activePagesList, i) ==
    IF i <= Len(activePagesList) THEN {activePagesList[i]} ELSE {}

RECURSIVE SyncPages(_, _, _, _, _, _)
SyncPages(st, templatePages, activePagesList, n, i, F) ==
    IF i > Len(templatePages) THEN st
    ELSE LET activePage == ActivePageAt(activePagesList, i)
             st1 == IF activePage = {} THEN st
                    ELSE SyncPage(st, templatePages[i], TheRow(activePage), n, i, F)
         IN SyncPages(st1, templatePages, activePagesList, n, i + 1, F)

\* A matched week replaced by a fresh row (not what the code does).
SyncWeekRowReplace(d, moduleId, weekNumber, templateWeek) ==
    LET old == { w \in d.weeks : w.module_id = moduleId /\ w.week_number = weekNumber }
    IN Insert(DeleteWeekRows(d, { w.id : w \in old }), "weeks",
              << [module_id |-> moduleId, week_number |-> weekNumber,
                  title |-> templateWeek.title,
                  description |-> templateWeek.description,
                  unlock_date |-> templateWeek.unlockDate] >>)

\* A matched week: its row is updated in place.
SyncWeekRow(d, moduleId, weekNumber, templateWeek) ==
    UpdateWeekByNumber(d, moduleId, weekNumber, templateWeek)

\* syncWeekContent: an error of the week update is thrown.
SyncWeekContent(st, templateWeek, activeWeek, activeModuleId, F) ==
    LET n == activeWeek.id
        site == Site("weekUpdate", n, 0, 0)
        st1 == Attempt(st, site, F, SyncWeekRow(st.db, activeModuleId, n, templateWeek))
    IN IF site \in F THEN [st1 EXCEPT !.thrown = TRUE]
       ELSE LET weekRecord == WeekRecord(st1.db, activeModuleId, n)
            IN IF weekRecord = {} THEN st1
               ELSE SyncPages(st1, templateWeek.pages,
                              ActivePagesList(st1.db, TheRow(weekRecord).id), n, 1, F)

(***************************************************************************)
(* createWeekWithNumber and createPage.                                    *)
(***************************************************************************)
CreateQuestionPayloads(pageId, pageData) ==
    [idx \in 1..Len(pageData.questions) |->
        [page_id |-> pageId, question_number |-> idx,
         text |-> pageData.questions[idx].text]]

CreateResourcePayloads(pageId, pageData) ==
    [idx \in 1..Len(pageData.resources) |->
        [page_id |-> pageId, title |-> pageData.resources[idx].title,
         url |-> OrNull(pageData.resources[idx].url),
         description |-> OrNull(pageData.resources[idx].description),
         sort_order |-> idx - 1]]

CreateVideoPayloads(pageId, pageData) ==
    [idx \in 1..Len(pageData.videos) |->
        [page_id |-> pageId, title |-> pageData.videos[idx].title,
         url |-> pageData.videos[idx].url,
         description |-> NULL,    \* not in the payload: the column default
         duration |-> OrNull(Prop(pageData.videos[idx], "duration")),
         sort_order |-> idx - 1]]

\* createPage: a failed page insert is logged and returns null; the inserts
\* of the page's questions, resources and videos are not checked.
CreatePage(st, weekRowId, pageNumber, pageData, n, F) ==
    LET site == Site("pageInsert", n, pageNumber, 0)
    IN IF site \in F \/ ~ PageInsertable(st.db, weekRowId, pageNumber)
       THEN [st EXCEPT !.failed = @ \cup {site}]
       ELSE
       LET pageId == st.db.seq.pages
           st1 == [st EXCEPT !.db = Insert(@, "pages",
                      << [week_id |-> weekRowId, page_number |-> pageNumber,
                          title |-> pageData.title, type |-> pageData.type,
                          content |-> OrNull(pageData.content)] >>)]
           st2 == IF Len(pageData.questions) > 0
                  THEN Attempt(st1, Site("questionsInsert", n, pageNumber, 0), F,
                               Insert(st1.db, "questions",
                                      CreateQuestionPayloads(pageId, pageData)))
                  ELSE st1
           st3 == IF Len(pageData.resources) > 0
                  THEN Attempt(st2, Site("resourcesInsert", n, pageNumber, 0), F,
                               Insert(st2.db, "resources",
                                      CreateResourcePayloads(pageId, pageData)))
                  ELSE st2
       IN IF Len(pageData.videos) > 0
          THEN Attempt(st3, Site("videosInsert", n, pageNumber, 0), F,
                       Insert(st3.db, "videos", CreateVideoPayloads(pageId, pageData)))
          ELSE st3

RECURSIVE CreatePages(_, _, _, _, _, _)
CreatePages(st, weekRowId, pages, n, i, F) ==
    IF i > Len(pages) THEN st
    ELSE CreatePages(CreatePage(st, weekRowId, i, pages[i], n, F),
                     weekRowId, pages, n, i + 1, F)

\* The week payload without the unlock date (not what the code does).
CreateWeekPayloadNoDate(moduleId, weekNumber, weekData) ==
    [module_id |-> moduleId, week_number |-> weekNumber,
     title |-> weekData.title, description |-> OrNull(weekData.description),
     unlock_date |-> NULL]

\* The row createWeekWithNumber inserts.
CreateWeekPayload(moduleId, weekNumber, weekData) ==
    [module_id |-> moduleId, week_number |-> weekNumber,
     title |-> weekData.title, description |-> OrNull(weekData.description),
     unlock_date |-> OrNull(weekData.unlockDate)]

\* createWeekWithNumber: a failed week insert returns this.error(...), which
\* syncToActiveModule does not look at.
CreateWeekWithNumber(st, moduleId, weekNumber, weekData, F) ==
    LET site == Site("weekInsert", weekNumber, 0, 0)
    IN IF site \in F \/ ~ WeekInsertable(st.db, moduleId, weekNumber)
       THEN [st EXCEPT !.failed = @ \cup {site},
                       !.db = LogError(@, "Failed to create week: storage error",
                                       "CREATE_ERROR")]
       ELSE CreatePages([st EXCEPT !.db = Insert(@, "weeks",
                            << CreateWeekPayload(moduleId, weekNumber, weekData) >>)],
                        st.db.seq.weeks, weekData.pages, weekNumber, 1, F)

(***************************************************************************)
(* The week loop and the whole run.                                        *)
(***************************************************************************)
\* The active week at the template week's position in the list (not what
\* the code does).
ActiveWeekByPosition(activeWeeks, templateWeeks, j) ==
    IF j <= Len(activeWeeks) THEN {activeWeeks[j]} ELSE {}

\* activeWeekMap.get(templateWeek.id): by week number.
ActiveWeekFor(activeWeeks, templateWeeks, j) ==
    { activeWeeks[x] : x \in { y \in 1..Len(activeWeeks) :
                                 activeWeeks[y].id = templateWeeks[j].id } }

WeekDataOf(templateWeek) ==
    [title |-> templateWeek.title, description |-> templateWeek.description,
     unlockDate |-> templateWeek.unlockDate, pages |-> templateWeek.pages]

RECURSIVE SyncWeeks(_, _, _, _, _, _)
SyncWeeks(st, templateWeeks, activeWeeks, activeModuleId, j, F) ==
    IF j > Len(templateWeeks) \/ st.thrown THEN st
    ELSE LET activeWeek == ActiveWeekFor(activeWeeks, templateWeeks, j)
             st1 == IF activeWeek # {}
                    THEN SyncWeekContent(st, templateWeeks[j], TheRow(activeWeek),
                                         activeModuleId, F)
                    ELSE CreateWeekWithNumber(st, activeModuleId, templateWeeks[j].id,
                                              WeekDataOf(templateWeeks[j]), F)
         IN SyncWeeks(st1, templateWeeks, activeWeeks, activeModuleId, j + 1, F)

\* What a run leaves and returns: [db, failed, result].
SyncRun(d, templateId, activeModuleId, F) ==
    LET pre == SyncPrecondition(d, templateId, activeModuleId)
    IN IF pre # {}
       THEN [db |-> LogError(d, TheRow(pre).message, TheRow(TheRow(pre).error).code),
             failed |-> {}, result |-> TheRow(pre)]
       ELSE
       LET template == TheRow(GetModule(d, templateId))
           st0 == [db |-> d, failed |-> {}, thrown |-> FALSE]
           st1 == IF Site("updateModule", 0, 0, 0) \in F
                  THEN [st0 EXCEPT
                          !.failed = {Site("updateModule", 0, 0, 0)},
                          !.db = LogError(d, "Failed to update module: storage error",
                                          "UPDATE_ERROR")]
                  ELSE [st0 EXCEPT !.db = UpdateModuleRow(d, activeModuleId,
                                              ModuleInfoUpdates(template))]
           templateZoom == GetZoomInfo(st1.db, templateId)
           st2 == IF templateZoom # {}
                  THEN [st1 EXCEPT !.db = UpsertZoomInfo(@, activeModuleId,
                                                         TheRow(templateZoom))]
                  ELSE st1
           templateWeeks == GetWeeks(st2.db, templateId)
           activeWeeks == GetWeeks(st2.db, activeModuleId)
           st3 == SyncWeeks(st2, templateWeeks, activeWeeks, activeModuleId, 1, F)
       IN IF st3.thrown
          THEN [db |-> LogError(st3.db, "Failed to sync to active module: storage error",
                                "SYNC_ERROR"),
                failed |-> st3.failed,
                result |-> Error("Failed to sync to active module: storage error",
                                 "SYNC_ERROR")]
          ELSE [db |-> st3.db, failed |-> st3.failed,
                result |-> Success("Template synced to active module successfully")]

(***************************************************************************)
(* Specification Spec: every call of syncToActiveModule is one step.  An   *)
(* admin calls it on one pair of modules, again and again.  The storage    *)
(* layer fails at most one write of a week, page or module row in a        *)
(* behaviour.                                                              *)
(***************************************************************************)
Weeks == 1..MaxWeek

\* A syncToActiveModule call that has not begun: its locals.
SyncIdle ==
    [pc |-> "idle", template |-> {}, templateZoom |-> {},
     templateWeeks |-> <<>>, activeWeeks |-> <<>>, j |-> 1,
     weekRecord |-> {}, activePagesList |-> <<>>, branch |-> <<>>,
     weekRowId |-> NoId, i |-> 1, pageId |-> NoId]

\* A student's call that has not begun: its arguments and locals.
StudentIdle ==
    [pc |-> "idle", weekId |-> 1, pageIndex |-> 0, questionId |-> 0,
     postId |-> NoId, weekRecord |-> {}, page |-> {}, question |-> {}]

\* The week, page and module row writes a run on this database can issue.
RunSites(d, templateId, activeModuleId) ==
    LET templateWeeks == GetWeeks(d, templateId)
        activeWeeks == GetWeeks(d, activeModuleId)
        OfWeek(j) ==
            LET tw == templateWeeks[j]
                aw == { activeWeeks[x] : x \in { y \in 1..Len(activeWeeks) :
                                                   activeWeeks[y].id = tw.id } }
            IN IF aw # {}
               THEN {Site("weekUpdate", tw.id, 0, 0)}
                    \cup { Site("pageUpdate", tw.id, i, 0) :
                             i \in 1..Min2(Len(tw.pages), Len(TheRow(aw).pages)) }
               ELSE {Site("weekInsert", tw.id, 0, 0)}
                    \cup { Site("pageInsert", tw.id, i, 0) : i \in 1..Len(tw.pages) }
    IN {Site("updateModule", 0, 0, 0)}
       \cup UNION { OfWeek(j) : j \in 1..Len(templateWeeks) }

FaultChoices(d, templateId, activeModuleId, alreadyFaulty) ==
    IF alreadyFaulty \/ SyncPrecondition(d, templateId, activeModuleId) # {}
    THEN {{}}
    ELSE {{}} \cup { {site} : site \in RunSites(d, templateId, activeModuleId) }

\* The calls made: the template and its copy, and one pair of arguments for
\* each way the precondition fails.
CallArgs == { <<"m1", "m2">>, <<"m3", "m2">>, <<"m2", "m2">>,
              <<"m1", "m3">>, <<"m1", "m1">> }

NoCall == [templateId |-> NULL, activeModuleId |-> NULL]

NoOp == [name |-> "none", moduleId |-> NULL]

\* The parts of the state that belong to the other specifications.
Outside == <<bucket, worker, auth, rival, edit, client>>

WorkerIdle == [clock |-> 0, stamp |-> 0, started |-> 0, run |-> <<>>]

\* null, where a user profile is expected
NoUser == [id |-> NULL, role |-> NULL, status |-> NULL]

AuthIdle == [users |-> {}, session |-> NULL, cachedUser |-> NoUser,
             cacheFresh |-> FALSE, guard |-> "none", location |-> "page",
             returned |-> NoUser, calls |-> 0]

RivalIdle == [name |-> "none", pc |-> "idle"]

EditIdle == <<>>

ClientIdle == [storage |-> <<>>]

OutsideIdle ==
    /\ bucket = {}
    /\ worker = WorkerIdle
    /\ auth = AuthIdle
    /\ rival = RivalIdle
    /\ edit = EditIdle
    /\ client = ClientIdle

Init ==
    \E tW \in SUBSET Weeks, aW \in SUBSET Weeks, tP \in 0..MaxItems,
       tQ \in 0..MaxItems, tD \in DescriptionValues :
        /\ db = InitDb(tW, tP, tQ, tD, aW)
        /\ before = db
        /\ call = NoCall
        /\ result = Success("")
        /\ failed = {}
        /\ prevClean = FALSE
        /\ runs = 0
        /\ faulty = FALSE
        /\ sync = SyncIdle
        /\ student = StudentIdle
        /\ added = {}
        /\ op = NoOp
        /\ OutsideIdle

Clean == call # NoCall /\ result.success /\ failed = {}

SyncToActiveModule(templateId, activeModuleId, F) ==
    /\ runs < MaxRuns
    /\ call \in {NoCall, [templateId |-> templateId,
                          activeModuleId |-> activeModuleId]}
    /\ LET out == SyncRun(db, templateId, activeModuleId, F)
       IN /\ db' = out.db
          /\ result' = out.result
          /\ failed' = out.failed
          /\ faulty' = (faulty \/ out.failed # {})
    /\ before' = db
    /\ call' = [templateId |-> templateId, activeModuleId |-> activeModuleId]
    /\ prevClean' = Clean
    /\ runs' = runs + 1
    /\ op' = [name |-> "syncToActiveModule", moduleId |-> activeModuleId]
    /\ UNCHANGED <<sync, student, added, Outside>>

Next ==
    \E args \in CallArgs :
        \E F \in FaultChoices(db, args[1], args[2], faulty) :
            SyncToActiveModule(args[1], args[2], F)

Spec == Init /\ [][Next]_vars

(***************************************************************************)
(* Specification StepSpec: one step is one storage call.  An admin calls   *)
(* syncToActiveModule on the template and its copy, and a student calls    *)
(* addDiscussionPost or addReply on a question of the copy, at any time.   *)
(* The page branches of a matched week run in parallel (Promise.all), and  *)
(* so do the page update, the resources and the videos of a page, and the  *)
(* question updates of a page.  At most one storage call is rejected: a    *)
(* page update, which makes its Promise.all, the page's branch and the     *)
(* Promise.all over the pages reject at once, while the sibling branches   *)
(* go on.                                                                  *)
(***************************************************************************)
StepCall == [templateId |-> "m1", activeModuleId |-> "m2"]

\* The template has weeks 1 and 2; the copy has one of them.
StepTemplateWeeks == {1, 2}
StepActiveWeekSets == {{1}, {2}}

StepInit ==
    \E aW \in StepActiveWeekSets :
        /\ db = InitDb(StepTemplateWeeks, MaxItems, MaxItems, "T desc", aW)
        /\ before = db
        /\ call = NoCall
        /\ result = Success("")
        /\ failed = {}
        /\ prevClean = FALSE
        /\ runs = 0
        /\ faulty = FALSE
        /\ sync = SyncIdle
        /\ student = StudentIdle
        /\ added = {}
        /\ op = NoOp
        /\ OutsideIdle

\* What no step of StepSpec changes, but for a rejected call.
StepFixed == <<failed, prevClean, runs, faulty, op, Outside>>

\* A step of the sync call that returns nothing to the caller yet.
SyncStep(d2, s2) ==
    /\ db' = d2
    /\ sync' = s2
    /\ UNCHANGED <<before, call, result, student, added, StepFixed>>

\* The sync call returns r; an error result is logged on its way out.
SyncReturn(r) ==
    /\ sync' = [sync EXCEPT !.pc = "done"]
    /\ result' = r
    /\ db' = IF r.success THEN db
             ELSE LogError(db, r.message, TheRow(r.error).code)

NextWeek(s) == [s EXCEPT !.j = @ + 1, !.pc = "week"]

\* const template = await this.getModule(templateId), and its two checks.
StepGetTemplate ==
    /\ sync.pc = "idle"
    /\ call' = StepCall
    /\ before' = db
    /\ LET template == GetModule(db, StepCall.templateId)
       IN IF template = {}
          THEN SyncReturn(Error("Template not found", "NOT_FOUND"))
          ELSE IF TheRow(template).status # "draft"
          THEN SyncReturn(Error("Source must be a template (draft module)",
                                "INVALID_STATUS"))
          ELSE /\ sync' = [sync EXCEPT !.pc = "getActiveModule",
                                       !.template = template]
               /\ UNCHANGED <<db, result>>
    /\ UNCHANGED <<student, added, StepFixed>>

\* const activeModule = await this.getModule(activeModuleId), and its checks.
StepGetActiveModule ==
    /\ sync.pc = "getActiveModule"
    /\ LET activeModule == GetModule(db, call.activeModuleId)
       IN IF activeModule = {}
          THEN SyncReturn(Error("Active module not found", "NOT_FOUND"))
          ELSE IF TheRow(activeModule).status # "launched"
          THEN SyncReturn(Error("Target must be a launched module",
                                "INVALID_STATUS"))
          ELSE /\ sync' = [sync EXCEPT !.pc = "updateModule"]
               /\ UNCHANGED <<db, result>>
    /\ UNCHANGED <<before, call, student, added, StepFixed>>

StepUpdateModule ==
    /\ sync.pc = "updateModule"
    /\ SyncStep(UpdateModuleRow(db, call.activeModuleId,
                                ModuleInfoUpdates(TheRow(sync.template))),
                [sync EXCEPT !.pc = "getZoomInfo"])

\* The zoom read that goes on to the weeks whatever it finds (not what the
\* code does).
StepGetZoomInfoOnly ==
    /\ sync.pc = "getZoomInfo"
    /\ LET templateZoom == GetZoomInfo(db, call.templateId)
       IN SyncStep(db, [sync EXCEPT !.templateZoom = templateZoom,
                                    !.pc = "getTemplateWeeks"])

StepGetZoomInfo ==
    /\ sync.pc = "getZoomInfo"
    /\ LET templateZoom == GetZoomInfo(db, call.templateId)
       IN SyncStep(db, [sync EXCEPT !.templateZoom = templateZoom,
                                    !.pc = IF templateZoom # {}
                                           THEN "updateZoomInfo"
                                           ELSE "getTemplateWeeks"])

StepUpdateZoomInfo ==
    /\ sync.pc = "updateZoomInfo"
    /\ SyncStep(UpsertZoomInfo(db, call.activeModuleId, TheRow(sync.templateZoom)),
                [sync EXCEPT !.pc = "getTemplateWeeks"])

StepGetTemplateWeeks ==
    /\ sync.pc = "getTemplateWeeks"
    /\ SyncStep(db, [sync EXCEPT !.templateWeeks = GetWeeks(db, call.templateId),
                                 !.pc = "getActiveWeeks"])

StepGetActiveWeeks ==
    /\ sync.pc = "getActiveWeeks"
    /\ SyncStep(db, [sync EXCEPT !.activeWeeks = GetWeeks(db, call.activeModuleId),
                                 !.j = 1, !.pc = "week"])

\* The loop is over: return this.success(...).
StepReturn ==
    /\ sync.pc = "week"
    /\ sync.j > Len(sync.templateWeeks)
    /\ SyncReturn(Success("Template synced to active module successfully"))
    /\ UNCHANGED <<before, call, student, added, StepFixed>>

\* The template week and page the sync call is at.
TemplateWeek == sync.templateWeeks[sync.j]
TemplatePage(i) == TemplateWeek.pages[i]
ActiveWeek == ActiveWeekFor(sync.activeWeeks, sync.templateWeeks, sync.j)

\* syncWeekContent: the week update.
StepWeekUpdate ==
    /\ sync.pc = "week"
    /\ sync.j <= Len(sync.templateWeeks)
    /\ ActiveWeek # {}
    /\ SyncStep(SyncWeekRow(db, call.activeModuleId, TheRow(ActiveWeek).id,
                            TemplateWeek),
                [sync EXCEPT !.pc = "weekRecord"])

\* syncWeekContent: the week's row id.
StepWeekRecord ==
    /\ sync.pc = "weekRecord"
    /\ LET weekRecord == WeekRecord(db, call.activeModuleId, TheRow(ActiveWeek).id)
       IN SyncStep(db, IF weekRecord = {} THEN NextWeek(sync)
                       ELSE [sync EXCEPT !.weekRecord = weekRecord,
                                         !.pc = "pagesList"])

\* A page branch: the page update, the resources and the videos in
\* parallel, then the questions.
BranchStart ==
    [pc |-> "content", page |-> "update", resources |-> "delete",
     videos |-> "delete", existingQList |-> <<>>, updates |-> {}]

BranchDone ==
    [pc |-> "done", page |-> "done", resources |-> "done",
     videos |-> "done", existingQList |-> <<>>, updates |-> {}]

\* syncWeekContent: the week's pages; one branch per template page.
StepPagesList ==
    /\ sync.pc = "pagesList"
    /\ LET activePagesList == ActivePagesList(db, TheRow(sync.weekRecord).id)
       IN SyncStep(db, [sync EXCEPT
              !.activePagesList = activePagesList,
              !.branch = [i \in 1..Len(TemplateWeek.pages) |->
                            IF ActivePageAt(activePagesList, i) = {}
                            THEN BranchDone ELSE BranchStart],
              !.pc = "pages"])

ActivePage(i) == TheRow(ActivePageAt(sync.activePagesList, i))

\* The branches of the week at hand; they outlive a run that has returned
\* on a rejected sibling.
Branches == IF sync.pc \in {"pages", "done"} THEN DOMAIN sync.branch ELSE {}

StepPageUpdate(i) ==
    /\ sync.branch[i].page = "update"
    /\ SyncStep(UpdatePageById(db, ActivePage(i).id, TemplatePage(i)),
                [sync EXCEPT !.branch[i].page = "done"])

\* The page update of branch i is rejected (the call throws): the branch
\* stops before its questions, Promise.all(pagePromises) rejects,
\* syncWeekContent throws and syncToActiveModule returns SYNC_ERROR.
StepPageUpdateThrows(i) ==
    /\ ~faulty
    /\ sync.pc = "pages"
    /\ sync.branch[i].page = "update"
    /\ sync' = [sync EXCEPT !.branch[i].page = "thrown",
                            !.branch[i].pc = "thrown", !.pc = "done"]
    /\ result' = Error("Failed to sync to active module: storage error",
                       "SYNC_ERROR")
    /\ db' = LogError(db, "Failed to sync to active module: storage error",
                      "SYNC_ERROR")
    /\ failed' = {Site("pageUpdate", TemplateWeek.id, i, 0)}
    /\ faulty' = TRUE
    /\ UNCHANGED <<before, call, student, added, prevClean, runs, op, Outside>>

StepResourcesDelete(i) ==
    /\ sync.branch[i].resources = "delete"
    /\ SyncStep(DeleteResourcesOfPage(db, ActivePage(i).id),
                [sync EXCEPT !.branch[i].resources =
                    IF Len(TemplatePage(i).resources) > 0 THEN "insert" ELSE "done"])

StepResourcesInsert(i) ==
    /\ sync.branch[i].resources = "insert"
    /\ SyncStep(IF PageExists(db, ActivePage(i).id)
                THEN Insert(db, "resources",
                            SyncResourcePayloads(ActivePage(i).id, TemplatePage(i)))
                ELSE db,
                [sync EXCEPT !.branch[i].resources = "done"])

\* The delete of the videos of every page of the week (not what the code
\* does).
StepVideosDeleteOfWeek(i) ==
    /\ sync.branch[i].videos = "delete"
    /\ SyncStep([db EXCEPT !.videos =
                    { v \in @ : \A x \in DOMAIN sync.activePagesList :
                                   v.page_id # sync.activePagesList[x].id }],
                [sync EXCEPT !.branch[i].videos =
                    IF Len(TemplatePage(i).videos) > 0 THEN "insert" ELSE "done"])

StepVideosDelete(i) ==
    /\ sync.branch[i].videos = "delete"
    /\ SyncStep(DeleteVideosOfPage(db, ActivePage(i).id),
                [sync EXCEPT !.branch[i].videos =
                    IF Len(TemplatePage(i).videos) > 0 THEN "insert" ELSE "done"])

StepVideosInsert(i) ==
    /\ sync.branch[i].videos = "insert"
    /\ SyncStep(IF PageExists(db, ActivePage(i).id)
                THEN Insert(db, "videos",
                            SyncVideoPayloads(ActivePage(i).id, TemplatePage(i)))
                ELSE db,
                [sync EXCEPT !.branch[i].videos = "done"])

\* The rows the branch of page i has still to insert into questions.
BranchInserts(b, i) ==
    QuestionInserts(ActivePage(i).id, b.existingQList, TemplatePage(i).questions, 1)

\* A branch with no question update and no question insert left is over.
Settled(b, i) ==
    IF b.updates = {} /\ Len(BranchInserts(b, i)) = 0
    THEN [b EXCEPT !.pc = "done"] ELSE b

StepExistingQuestions(i) ==
    /\ sync.branch[i].pc = "content"
    /\ sync.branch[i].page = "done"
    /\ sync.branch[i].resources = "done"
    /\ sync.branch[i].videos = "done"
    /\ LET existingQList == ExistingQuestions(db, ActivePage(i).id)
           b == [sync.branch[i] EXCEPT
                    !.pc = "questions",
                    !.existingQList = existingQList,
                    !.updates = { k \in 1..Len(TemplatePage(i).questions) :
                                    FindQuestion(existingQList, k) # {} }]
       IN SyncStep(db, [sync EXCEPT !.branch[i] = Settled(b, i)])

StepQuestionUpdate(i, k) ==
    /\ sync.branch[i].pc = "questions"
    /\ k \in sync.branch[i].updates
    /\ LET b == [sync.branch[i] EXCEPT !.updates = @ \ {k}]
       IN SyncStep(SyncQuestionUpdate(db,
                       TheRow(FindQuestion(b.existingQList, k)),
                       TemplatePage(i).questions[k]),
                   [sync EXCEPT !.branch[i] = Settled(b, i)])

StepQuestionsInsert(i) ==
    /\ sync.branch[i].pc = "questions"
    /\ sync.branch[i].updates = {}
    /\ SyncStep(IF PageExists(db, ActivePage(i).id)
                THEN Insert(db, "questions", BranchInserts(sync.branch[i], i))
                ELSE db,
                [sync EXCEPT !.branch[i].pc = "done"])

\* await Promise.all(pagePromises): on to the next template week.
StepPagesDone ==
    /\ sync.pc = "pages"
    /\ \A i \in DOMAIN sync.branch : sync.branch[i].pc = "done"
    /\ SyncStep(db, NextWeek(sync))

\* createWeekWithNumber in steps: on to the next page, or the next week.
NextPage(s) ==
    IF s.i < Len(s.templateWeeks[s.j].pages)
    THEN [s EXCEPT !.i = @ + 1, !.pc = "createPage"]
    ELSE NextWeek(s)

\* createPage in steps: the next insert of a non-empty list after `stage`
\* (the page, its questions, its resources, its videos).
AfterCreate(s, stage) ==
    LET pageData == s.templateWeeks[s.j].pages[s.i]
    IN IF stage = "page" /\ Len(pageData.questions) > 0
       THEN [s EXCEPT !.pc = "createQuestions"]
       ELSE IF stage \in {"page", "questions"} /\ Len(pageData.resources) > 0
       THEN [s EXCEPT !.pc = "createResources"]
       ELSE IF stage \in {"page", "questions", "resources"} /\ Len(pageData.videos) > 0
       THEN [s EXCEPT !.pc = "createVideos"]
       ELSE NextPage(s)

\* createWeekWithNumber: the week insert.
StepWeekInsert ==
    /\ sync.pc = "week"
    /\ sync.j <= Len(sync.templateWeeks)
    /\ ActiveWeek = {}
    /\ IF WeekInsertable(db, call.activeModuleId, TemplateWeek.id)
       THEN SyncStep(Insert(db, "weeks",
                            << CreateWeekPayload(call.activeModuleId, TemplateWeek.id,
                                                 WeekDataOf(TemplateWeek)) >>),
                     IF Len(TemplateWeek.pages) > 0
                     THEN [sync EXCEPT !.weekRowId = db.seq.weeks, !.i = 1,
                                       !.pc = "createPage"]
                     ELSE NextWeek(sync))
       ELSE SyncStep(LogError(db, "Failed to create week: storage error",
                              "CREATE_ERROR"),
                     NextWeek(sync))

\* createPage: the page insert.
StepPageInsert ==
    /\ sync.pc = "createPage"
    /\ IF PageInsertable(db, sync.weekRowId, sync.i)
       THEN SyncStep(Insert(db, "pages",
                            << [week_id |-> sync.weekRowId, page_number |-> sync.i,
                                title |-> TemplatePage(sync.i).title,
                                type |-> TemplatePage(sync.i).type,
                                content |-> OrNull(TemplatePage(sync.i).content)] >>),
                     AfterCreate([sync EXCEPT !.pageId = db.seq.pages], "page"))
       ELSE SyncStep(db, NextPage(sync))

StepCreateQuestions ==
    /\ sync.pc = "createQuestions"
    /\ SyncStep(IF PageExists(db, sync.pageId)
                THEN Insert(db, "questions",
                            CreateQuestionPayloads(sync.pageId, TemplatePage(sync.i)))
                ELSE db,
                AfterCreate(sync, "questions"))

StepCreateResources ==
    /\ sync.pc = "createResources"
    /\ SyncStep(IF PageExists(db, sync.pageId)
                THEN Insert(db, "resources",
                            CreateResourcePayloads(sync.pageId, TemplatePage(sync.i)))
                ELSE db,
                AfterCreate(sync, "resources"))

StepCreateVideos ==
    /\ sync.pc = "createVideos"
    /\ SyncStep(IF PageExists(db, sync.pageId)
                THEN Insert(db, "videos",
                            CreateVideoPayloads(sync.pageId, TemplatePage(sync.i)))
                ELSE db,
                AfterCreate(sync, "videos"))

(***************************************************************************)
(* addDiscussionPost and addReply: three selects and one insert.  postId   *)
(* is NoId for a post and the parent's id for a reply.                     *)
(***************************************************************************)
\* A step of the student's call that inserts nothing.
StudentStep(t2) ==
    /\ student' = t2
    /\ UNCHANGED <<db, before, call, result, sync, added, StepFixed>>

\* The posts shown under the question the student is looking at.
ShownPosts(d, moduleId, weekId, pageIndex, questionId) ==
    LET ws == { w.id : w \in { x \in d.weeks :
                  x.module_id = moduleId /\ x.week_number = weekId } }
        gs == { g.id : g \in { x \in d.pages :
                  x.week_id \in ws /\ x.page_number = pageIndex + 1 } }
        qs == { q.id : q \in { x \in d.questions :
                  x.page_id \in gs /\ x.question_number = questionId + 1 } }
    IN { o.id : o \in { x \in d.discussion_posts : x.question_id \in qs } }

\* .from('weeks').select('id').eq(module_id).eq(week_number).single()
StudentWeek(weekId, pageIndex, questionId, postId) ==
    /\ student.pc = "idle"
    /\ LET weekRecord == WeekRecord(db, StepCall.activeModuleId, weekId)
       IN StudentStep([student EXCEPT
              !.weekId = weekId, !.pageIndex = pageIndex,
              !.questionId = questionId, !.postId = postId,
              !.weekRecord = weekRecord,
              !.pc = IF weekRecord = {} THEN "threw" ELSE "page"])

\* .from('pages').select('id').eq(week_id).eq(page_number).single()
StudentPage ==
    /\ student.pc = "page"
    /\ LET page == Single({ g \in db.pages :
                              /\ g.week_id = TheRow(student.weekRecord).id
                              /\ g.page_number = student.pageIndex + 1 })
       IN StudentStep([student EXCEPT
              !.page = page, !.pc = IF page = {} THEN "threw" ELSE "question"])

\* .from('questions').select('id').eq(page_id).eq(question_number).single()
StudentQuestion ==
    /\ student.pc = "question"
    /\ LET question == Single({ q \in db.questions :
                                  /\ q.page_id = TheRow(student.page).id
                                  /\ q.question_number = student.questionId + 1 })
       IN StudentStep([student EXCEPT
              !.question = question,
              !.pc = IF question = {} THEN "threw" ELSE "insert"])

\* The foreign keys of discussion_posts to questions and to its parent.
PostInsertable(d, payload) ==
    /\ \E q \in d.questions : q.id = payload.question_id
    /\ payload.parent_id = NoId
         \/ \E o \in d.discussion_posts : o.id = payload.parent_id

\* .from('discussion_posts').insert({question_id, user_id, content[, parent_id]})
StudentInsert ==
    /\ student.pc = "insert"
    /\ LET payload == [question_id |-> TheRow(student.question).id,
                       user_id |-> "u3", parent_id |-> student.postId,
                       content |-> "a new thought"]
       IN IF PostInsertable(db, payload)
          THEN /\ db' = Insert(db, "discussion_posts", <<payload>>)
               /\ added' = added \cup
                    { [post |-> [id |-> db.seq.discussion_posts] @@ payload,
                       page_id |-> TheRow(student.page).id,
                       question_number |-> student.questionId + 1,
                       during |-> sync.pc \notin {"idle", "done"}] }
               /\ student' = [student EXCEPT !.pc = "done"]
          ELSE /\ student' = [student EXCEPT !.pc = "threw"]
               /\ UNCHANGED <<db, added>>
    /\ UNCHANGED <<before, call, result, sync, StepFixed>>

\* The storage calls of the sync call.
SyncSteps ==
    \/ StepGetTemplate
    \/ StepGetActiveModule
    \/ StepUpdateModule
    \/ StepGetZoomInfo
    \/ StepUpdateZoomInfo
    \/ StepGetTemplateWeeks
    \/ StepGetActiveWeeks
    \/ StepReturn
    \/ StepWeekUpdate
    \/ StepWeekRecord
    \/ StepPagesList
    \/ \E i \in Branches :
          \/ StepPageUpdate(i)
          \/ StepPageUpdateThrows(i)
          \/ StepResourcesDelete(i)
          \/ StepResourcesInsert(i)
          \/ StepVideosDelete(i)
          \/ StepVideosInsert(i)
          \/ StepExistingQuestions(i)
          \/ \E k \in 1..MaxItems : StepQuestionUpdate(i, k)
          \/ StepQuestionsInsert(i)
    \/ StepPagesDone
    \/ StepWeekInsert
    \/ StepPageInsert
    \/ StepCreateQuestions
    \/ StepCreateResources
    \/ StepCreateVideos

\* The storage calls of the student's addDiscussionPost / addReply.
StudentSteps ==
    \/ \E weekId \in Weeks, pageIndex \in 0..(MaxItems - 1),
          questionId \in 0..(MaxItems - 1) :
          \E postId \in {NoId} \cup ShownPosts(db, StepCall.activeModuleId,
                                               weekId, pageIndex, questionId) :
              StudentWeek(weekId, pageIndex, questionId, postId)
    \/ StudentPage
    \/ StudentQuestion
    \/ StudentInsert

StepNext == SyncSteps \/ StudentSteps

StepSpec == StepInit /\ [][StepNext]_vars

(***************************************************************************)
(* The module lifecycle: createModule, launchModule, archiveModule,        *)
(* restoreModule, deleteModule and syncFromTemplate.  Each is a function   *)
(* from the database to  [db, result] ; no storage call fails here.        *)
(***************************************************************************)
\* modules.id is a BIGSERIAL: the n-th module is "m" followed by n.
ModuleId(n) == "m" \o ToString(n)

\* new Date().toISOString()
Now == "2025-03-01T00:00:00Z"

\* return this.error(message, code): the result, and the row logError adds.
Fail(d, message, code) ==
    [db |-> LogError(d, message, code), result |-> Error(message, code)]

\* createModule: status is moduleData.status || 'draft', no template_id.
CreateModule(d, moduleData) ==
    LET row == [id |-> ModuleId(d.seq.modules),
                title |-> moduleData.title,
                description |-> OrNull(Prop(moduleData, "description")),
                instructor |-> OrNull(Prop(moduleData, "instructor")),
                duration |-> OrNull(Prop(moduleData, "duration")),
                participation |-> OrNull(Prop(moduleData, "participation")),
                time_expectations |-> OrNull(Prop(moduleData, "timeExpectations")),
                status |-> OrElse(Prop(moduleData, "status"), "draft"),
                template_id |-> NULL, launched_at |-> NULL,
                archived_at |-> NULL]
    IN [db |-> [d EXCEPT !.modules = @ \cup {row}, !.seq.modules = @ + 1],
        result |-> Success("Module created successfully")]

\* delete from modules where id = moduleId: the rows under the module go
\* with it (ON DELETE CASCADE), and the modules launched from it lose their
\* template_id (ON DELETE SET NULL).
DeleteModule(d, moduleId) ==
    LET d1 == DeleteWeekRows(d, { w.id : w \in { x \in d.weeks :
                                                   x.module_id = moduleId } })
    IN [db |-> [d1 EXCEPT
                  !.modules = { IF m.template_id = moduleId
                                THEN [m EXCEPT !.template_id = NULL] ELSE m
                                : m \in { x \in @ : x.id # moduleId } },
                  !.module_zoom_info = { z \in @ : z.module_id # moduleId }],
        result |-> Success("Module deleted successfully")]

\* createWeek: the next week number of the module, the week row, its pages.
CreateWeek(st, moduleId, weekData) ==
    LET numbers == { w.week_number : w \in { x \in st.db.weeks :
                                               x.module_id = moduleId } }
        weekNumber == IF numbers = {} THEN 1
                      ELSE 1 + CHOOSE n \in numbers : \A k \in numbers : k <= n
        payload == [module_id |-> moduleId, week_number |-> weekNumber,
                    title |-> weekData.title,
                    description |-> OrNull(weekData.description),
                    unlock_date |-> OrNull(weekData.unlockDate)]
    IN CreatePages([st EXCEPT !.db = Insert(@, "weeks", << payload >>)],
                   st.db.seq.weeks, weekData.pages, weekNumber, 1, {})

RECURSIVE CreateWeeks(_, _, _, _)
CreateWeeks(st, moduleId, templateWeeks, j) ==
    IF j > Len(templateWeeks) THEN st
    ELSE CreateWeeks(CreateWeek(st, moduleId, WeekDataOf(templateWeeks[j])),
                     moduleId, templateWeeks, j + 1)

\* launchModule: a new launched module with template_id = templateId, the
\* template's weeks and its zoom info.  The template's status is not looked
\* at.
LaunchModule(d, templateId) ==
    LET template == GetModule(d, templateId)
        templateWeeks == GetWeeks(d, templateId)
    IN IF template = {} THEN Fail(d, "Template module not found", "NOT_FOUND")
       ELSE IF \E j \in 1..Len(templateWeeks) :
                   OrNull(templateWeeks[j].unlockDate) = NULL
       THEN Fail(d, "All weeks must have unlock dates before launching",
                 "VALIDATION_ERROR")
       ELSE
       LET t == TheRow(template)
           newId == ModuleId(d.seq.modules)
           row == [id |-> newId, title |-> t.title,
                   description |-> t.description, instructor |-> t.instructor,
                   duration |-> t.duration, participation |-> t.participation,
                   time_expectations |-> t.time_expectations,
                   status |-> "launched", template_id |-> templateId,
                   launched_at |-> Now, archived_at |-> NULL]
           d1 == [d EXCEPT !.modules = @ \cup {row}, !.seq.modules = @ + 1]
           st == CreateWeeks([db |-> d1, failed |-> {}, thrown |-> FALSE],
                             newId, templateWeeks, 1)
           zoomInfo == GetZoomInfo(st.db, templateId)
           d2 == IF /\ zoomInfo # {}
                    /\ \E z \in zoomInfo :
                          OrNull(z.url) # NULL \/ OrNull(z.meetingId) # NULL
                 THEN UpsertZoomInfo(st.db, newId, TheRow(zoomInfo))
                 ELSE st.db
       IN [db |-> d2, result |-> Success("Module launched successfully")]

\* An updates object with no property.
NoUpdates ==
    [title |-> UNDEFINED, description |-> UNDEFINED, instructor |-> UNDEFINED,
     duration |-> UNDEFINED, participation |-> UNDEFINED,
     timeExpectations |-> UNDEFINED, status |-> UNDEFINED,
     archivedAt |-> UNDEFINED]

\* updateModule(moduleId, updates) and its result.
UpdateModule(d, moduleId, updates) ==
    [db |-> UpdateModuleRow(d, moduleId, updates),
     result |-> Success("Module updated successfully")]

\* archiveModule without its status check (not what the code does).
ArchiveModuleAnyStatus(d, moduleId) ==
    LET module == GetModule(d, moduleId)
    IN IF module = {} THEN Fail(d, "Module not found", "NOT_FOUND")
       ELSE UpdateModule(d, moduleId,
                         [NoUpdates EXCEPT !.status = "archived",
                                           !.archivedAt = Now])

ArchiveModule(d, moduleId) ==
    LET module == GetModule(d, moduleId)
    IN IF module = {} THEN Fail(d, "Module not found", "NOT_FOUND")
       ELSE IF TheRow(module).status # "launched"
       THEN Fail(d, "Only launched modules can be archived", "INVALID_STATUS")
       ELSE UpdateModule(d, moduleId,
                         [NoUpdates EXCEPT !.status = "archived",
                                           !.archivedAt = Now])

RestoreModule(d, moduleId) ==
    LET module == GetModule(d, moduleId)
    IN IF module = {} THEN Fail(d, "Module not found", "NOT_FOUND")
       ELSE IF TheRow(module).status # "archived"
       THEN Fail(d, "Only archived modules can be restored", "INVALID_STATUS")
       ELSE UpdateModule(d, moduleId,
                         [NoUpdates EXCEPT !.status = "launched",
                                           !.archivedAt = NULL])

\* if (!activeModule.templateId) return this.error(..., 'NO_TEMPLATE')
SyncFromTemplateLinkCheck(activeModule) ==
    IF OrNull(activeModule.template_id) = NULL
    THEN {Error("Module has no linked template", "NO_TEMPLATE")}
    ELSE {}

\* syncFromTemplate: the module info and the zoom info of the linked
\* template; the weeks are not synced.
SyncFromTemplate(d, activeModuleId) ==
    LET activeModule == GetModule(d, activeModuleId)
    IN IF activeModule = {} THEN Fail(d, "Active module not found", "NOT_FOUND")
       ELSE IF TheRow(activeModule).status # "launched"
       THEN Fail(d, "Can only sync launched modules", "INVALID_STATUS")
       ELSE IF SyncFromTemplateLinkCheck(TheRow(activeModule)) # {}
       THEN Fail(d, "Module has no linked template", "NO_TEMPLATE")
       ELSE
       LET templateId == TheRow(activeModule).template_id
           template == GetModule(d, templateId)
       IN IF template = {}
          THEN Fail(d, "Source template no longer exists", "TEMPLATE_NOT_FOUND")
          ELSE
          LET d1 == UpdateModuleRow(d, activeModuleId,
                                    ModuleInfoUpdates(TheRow(template)))
              templateZoom == GetZoomInfo(d1, templateId)
              d2 == IF templateZoom # {}
                    THEN UpsertZoomInfo(d1, activeModuleId, TheRow(templateZoom))
                    ELSE d1
          IN [db |-> d2,
              result |-> Success("Module synced from template successfully")]

(***************************************************************************)
(* Specification LifecycleSpec: an admin calls the lifecycle operations    *)
(* and the two syncs, one call per step, on any existing module id and on  *)
(* the id of no module, MaxRuns calls per behaviour.                       *)
(***************************************************************************)
\* What createModule is given: a title, and a status or none.
ModuleDataChoices ==
    { [title |-> "Logic"], [title |-> "Logic", status |-> "launched"] }

\* The ids the admin can name: those of the modules, and m3 (no module).
LifeIds == { m.id : m \in db.modules } \cup {"m3"}

\* The databases the lifecycle starts from.  The template has week 1 or,
\* after a deleteWeek, only week 2; its weeks have unlock dates or not yet;
\* its zoom info is complete, or has a passcode and a schedule but no url
\* and no meeting id yet.
LifeShapes == {"plain", "undated", "zoomWithoutUrl"}

LifeDb(tW, tD, shape) ==
    LET d == InitDb(tW, 1, 1, tD, {1})
    IN CASE shape = "plain" -> d
         [] shape = "undated" ->
              [d EXCEPT !.weeks = { IF w.module_id = "m1"
                                    THEN [w EXCEPT !.unlock_date = NULL]
                                    ELSE w : w \in @ }]
         [] shape = "zoomWithoutUrl" ->
              [d EXCEPT !.module_zoom_info =
                  { IF z.module_id = "m1"
                    THEN [z EXCEPT !.url = NULL, !.meeting_id = NULL]
                    ELSE z : z \in @ }]

LifeInit ==
    \E tW \in {{1}, {2}}, tD \in {NULL, "T desc"}, shape \in LifeShapes :
        /\ db = LifeDb(tW, tD, shape)
        /\ before = db
        /\ call = NoCall
        /\ result = Success("")
        /\ failed = {}
        /\ prevClean = FALSE
        /\ runs = 0
        /\ faulty = FALSE
        /\ sync = SyncIdle
        /\ student = StudentIdle
        /\ added = {}
        /\ op = NoOp
        /\ OutsideIdle

\* One call: what it leaves and what it returns.
LifeCall(name, moduleId, out) ==
    /\ runs < MaxRuns
    /\ db' = out.db
    /\ result' = out.result
    /\ before' = db
    /\ op' = [name |-> name, moduleId |-> moduleId]
    /\ runs' = runs + 1
    /\ UNCHANGED <<failed, prevClean, faulty, sync, student, added, Outside>>

LifeCreateModule ==
    \E moduleData \in ModuleDataChoices :
        /\ LifeCall("createModule", ModuleId(db.seq.modules),
                    CreateModule(db, moduleData))
        /\ UNCHANGED call

LifeLaunchModule ==
    \E templateId \in LifeIds :
        /\ LifeCall("launchModule", templateId, LaunchModule(db, templateId))
        /\ UNCHANGED call

LifeArchiveModule ==
    \E moduleId \in LifeIds :
        /\ LifeCall("archiveModule", moduleId, ArchiveModule(db, moduleId))
        /\ UNCHANGED call

LifeRestoreModule ==
    \E moduleId \in LifeIds :
        /\ LifeCall("restoreModule", moduleId, RestoreModule(db, moduleId))
        /\ UNCHANGED call

LifeDeleteModule ==
    \E moduleId \in LifeIds :
        /\ LifeCall("deleteModule", moduleId, DeleteModule(db, moduleId))
        /\ UNCHANGED call

LifeSyncFromTemplate ==
    \E activeModuleId \in LifeIds :
        /\ LifeCall("syncFromTemplate", activeModuleId,
                    SyncFromTemplate(db, activeModuleId))
        /\ UNCHANGED call

LifeSyncToActiveModule ==
    \E templateId \in LifeIds, activeModuleId \in LifeIds :
        /\ LifeCall("syncToActiveModule", activeModuleId,
                    SyncRun(db, templateId, activeModuleId, {}))
        /\ call' = [templateId |-> templateId, activeModuleId |-> activeModuleId]

LifeNext ==
    \/ LifeCreateModule
    \/ LifeLaunchModule
    \/ LifeArchiveModule
    \/ LifeRestoreModule
    \/ LifeDeleteModule
    \/ LifeSyncFromTemplate
    \/ LifeSyncToActiveModule

LifecycleSpec == LifeInit /\ [][LifeNext]_vars

(***************************************************************************)
(* Vocabulary of the properties.                                           *)
(***************************************************************************)
WeeksOf(d, m) == { w \in d.weeks : w.module_id = m }
PagesOfWeek(d, w) == { x \in d.pages : x.week_id = w.id }
QuestionsOfPage(d, x) == { q \in d.questions : q.page_id = x.id }
ResourcesOfPage(d, x) == { r \in d.resources : r.page_id = x.id }
VideosOfPage(d, x) == { v \in d.videos : v.page_id = x.id }
PostsOfQuestion(d, q) == { o \in d.discussion_posts : o.question_id = q.id }
ProgressOfWeek(d, w) == { g \in d.progress : g.week_id = w.id }

PagesOf(d, m) == UNION { PagesOfWeek(d, w) : w \in WeeksOf(d, m) }
QuestionsOf(d, m) == UNION { QuestionsOfPage(d, x) : x \in PagesOf(d, m) }
ResourcesOf(d, m) == UNION { ResourcesOfPage(d, x) : x \in PagesOf(d, m) }
VideosOf(d, m) == UNION { VideosOfPage(d, x) : x \in PagesOf(d, m) }
PostsOf(d, m) == UNION { PostsOfQuestion(d, q) : q \in QuestionsOf(d, m) }
ProgressOf(d, m) == UNION { ProgressOfWeek(d, w) : w \in WeeksOf(d, m) }

WeekNumbers(d, m) == { w.week_number : w \in WeeksOf(d, m) }

\* The latest call's template and target.
CallT == call.templateId
CallA == call.activeModuleId

\* The latest call passed its checks and ran.
Ran == /\ call # NoCall
       /\ \E t \in before.modules : t.id = CallT /\ t.status = "draft"
       /\ \E a \in before.modules : a.id = CallA /\ a.status = "launched"

\* The latest call ran, returned success, and none of its writes failed.
CleanRun == Ran /\ Clean

\* Row r without its id.
Content(r) == [f \in DOMAIN r \ {"id"} |-> r[f]]

\* C1: a second run right after a clean run, with the template unchanged,
\* changes nothing in A: the rows of A's weeks, pages, questions, resources
\* and videos (ids and fields), its module row, and the numbers of its
\* discussion posts and progress rows are those the first run left.
C1_SecondRunChangesNothing ==
    (CleanRun /\ prevClean) =>
        /\ WeeksOf(db, CallA) = WeeksOf(before, CallA)
        /\ PagesOf(db, CallA) = PagesOf(before, CallA)
        /\ QuestionsOf(db, CallA) = QuestionsOf(before, CallA)
        /\ ResourcesOf(db, CallA) = ResourcesOf(before, CallA)
        /\ VideosOf(db, CallA) = VideosOf(before, CallA)
        /\ GetModule(db, CallA) = GetModule(before, CallA)
        /\ Cardinality(PostsOf(db, CallA)) = Cardinality(PostsOf(before, CallA))
        /\ Cardinality(ProgressOf(db, CallA)) = Cardinality(ProgressOf(before, CallA))

\* The field values alone (no row identity of resources and videos): what a
\* second run still changes when the first run created a week.
C1_SecondRunKeepsFieldValues ==
    (CleanRun /\ prevClean) =>
        /\ WeeksOf(db, CallA) = WeeksOf(before, CallA)
        /\ { Content(v) : v \in VideosOf(db, CallA) }
             = { Content(v) : v \in VideosOf(before, CallA) }

\* C2: every question row that had a discussion post when a call began is
\* still there when the call has returned, with its id, page and question
\* number, and with exactly the posts it had.
C2_QuestionsWithPostsKept ==
    call # NoCall =>
        \A q \in { x \in before.questions : PostsOfQuestion(before, x) # {} } :
            /\ \E q2 \in db.questions :
                  /\ q2.id = q.id
                  /\ q2.page_id = q.page_id
                  /\ q2.question_number = q.question_number
            /\ PostsOfQuestion(db, q) = PostsOfQuestion(before, q)

\* A clean run rewrote the text of a question that has posts.
C2_Witness ==
    /\ CleanRun
    /\ \E q \in before.questions, q2 \in db.questions :
          /\ PostsOfQuestion(before, q) # {}
          /\ q2.id = q.id
          /\ q2.text # q.text

\* C3: a call leaves the progress table as it found it.
C3_ProgressUntouched ==
    call # NoCall => db.progress = before.progress

\* A clean run changed the title, description and unlock date of a week
\* that has a progress row.
C3_Witness ==
    /\ CleanRun
    /\ \E w \in WeeksOf(before, CallA), w2 \in WeeksOf(db, CallA) :
          /\ w2.id = w.id
          /\ w2.title # w.title
          /\ w2.description # w.description
          /\ w2.unlock_date # w.unlock_date
          /\ ProgressOfWeek(db, w) # {}

\* C4: whatever the interleaving of the storage calls of a sync run and of
\* a student's addDiscussionPost / addReply, the post the student inserted
\* is in the database, on a question row that still has the id, the page
\* and the question number the student found; and the discussion posts are
\* those that were there when the run began together with the student's:
\* the run wrote none and removed none.
C4_StudentPostSurvivesSync ==
    /\ \A a \in added :
          /\ a.post \in db.discussion_posts
          /\ \E q \in db.questions :
                /\ q.id = a.post.question_id
                /\ q.page_id = a.page_id
                /\ q.question_number = a.question_number
    /\ db.discussion_posts = before.discussion_posts \cup { a.post : a \in added }

\* The run is over; while it was in progress the student posted on a
\* question whose text the run has rewritten.
C4_Witness ==
    /\ sync.pc = "done"
    /\ result.success
    /\ \E a \in added :
          /\ a.during
          /\ \E q \in db.questions, q0 \in before.questions :
                /\ q.id = a.post.question_id
                /\ q0.id = q.id
                /\ q.text # q0.text

\* What the latest call found under its two ids.
FoundT == { m \in before.modules : m.id = CallT }
FoundA == { m \in before.modules : m.id = CallA }

\* The latest call was refused with this code and wrote nothing.
Refused(code) ==
    /\ ~result.success
    /\ \E e \in result.error : e.code = code
    /\ db = before

\* The tables of module data: all but the diagnostic error_logs.
DataTables ==
    {"modules", "module_zoom_info", "weeks", "pages", "questions",
     "resources", "videos", "discussion_posts", "progress"}

\* The latest call was refused with this code and wrote one row, into
\* error_logs.
RefusedAndLogged(code) ==
    /\ ~result.success
    /\ \E e \in result.error : e.code = code
    /\ \A t \in DataTables : db[t] = before[t]
    /\ before.error_logs \subseteq db.error_logs
    /\ Cardinality(db.error_logs \ before.error_logs) = 1

\* C5 as stated: a call whose T is missing or not a draft, or whose A is
\* missing or not launched, returns a failure (NOT_FOUND for a missing
\* module, INVALID_STATUS for a wrong status) and performs no write at all.
C5_RefusedCallWritesNothing ==
    call # NoCall =>
        /\ FoundT = {} => Refused("NOT_FOUND")
        /\ (FoundT # {} /\ \A t \in FoundT : t.status # "draft")
              => Refused("INVALID_STATUS")
        /\ (\E t \in FoundT : t.status = "draft") /\ FoundA = {}
              => Refused("NOT_FOUND")
        /\ (\E t \in FoundT : t.status = "draft")
              /\ FoundA # {} /\ (\A a \in FoundA : a.status # "launched")
              => Refused("INVALID_STATUS")

\* C5: a call whose T is missing or not a draft, or whose A is missing or
\* not launched, returns a failure (NOT_FOUND for a missing module,
\* INVALID_STATUS for a wrong status) and writes no module data: its one
\* write is the row it adds to error_logs.  A draft module is never written
\* as a target.
C5_RefusedCallWritesNoData ==
    call # NoCall =>
        /\ FoundT = {} => RefusedAndLogged("NOT_FOUND")
        /\ (FoundT # {} /\ \A t \in FoundT : t.status # "draft")
              => RefusedAndLogged("INVALID_STATUS")
        /\ (\E t \in FoundT : t.status = "draft") /\ FoundA = {}
              => RefusedAndLogged("NOT_FOUND")
        /\ (\E t \in FoundT : t.status = "draft")
              /\ FoundA # {} /\ (\A a \in FoundA : a.status # "launched")
              => RefusedAndLogged("INVALID_STATUS")

\* A call that names a draft module as the target has returned
\* INVALID_STATUS.
C5_Witness ==
    /\ call # NoCall
    /\ \E t \in FoundT : t.status = "draft"
    /\ \E a \in FoundA : a.status = "draft"
    /\ RefusedAndLogged("INVALID_STATUS")

\* The week numbers whose branch had a failed write in the latest run.
FailedWeeks == { site[2] : site \in { x \in failed : x[1] # "updateModule" } }

\* C6: a failed write in one week's branch does not keep the other template
\* weeks from being synced: after a run, every template week whose own
\* branch had no failure is present in A with the template's title.
C6_OtherWeeksStillSynced ==
    Ran =>
        \A tw \in WeeksOf(before, CallT) :
            tw.week_number \notin FailedWeeks =>
                \E aw \in WeeksOf(db, CallA) :
                    /\ aw.week_number = tw.week_number
                    /\ aw.title = tw.title

\* C7: a run in which a write failed does not return what a run in which
\* every write succeeded returns.
C7_FailedWriteIsReported ==
    (Ran /\ failed # {}) =>
        result # Success("Template synced to active module successfully")

\* A run that is refused is told apart from a run that was started: the
\* refusal codes are never returned by a started run.
C7_RefusalCodesOnlyWhenRefused ==
    Ran => (result.success \/ \E e \in result.error : e.code = "SYNC_ERROR")

\* A week of A that the latest run found (it was there when the call began).
Existing(aw) == \E w \in WeeksOf(before, CallA) : w.id = aw.id

\* Week aw carries tw's title, description and unlock date.
SameWeekFields(aw, tw) ==
    /\ aw.title = tw.title
    /\ aw.description = tw.description
    /\ aw.unlock_date = tw.unlock_date

\* As SameWeekFields, an empty description being stored as null.
SameWeekFieldsEmptyAsNull(aw, tw) ==
    /\ aw.title = tw.title
    /\ aw.description = (IF tw.description = "" THEN NULL ELSE tw.description)
    /\ aw.unlock_date = tw.unlock_date

\* The pages of week w in page_number order.
PageSeq(d, w) == OrderBy(PagesOfWeek(d, w), "page_number")

\* The pages of aw and tw that share an index carry the same title, type
\* and content.
SamePageFields(d, aw, tw) ==
    \A i \in 1..Min2(Len(PageSeq(d, aw)), Len(PageSeq(d, tw))) :
        /\ PageSeq(d, aw)[i].title = PageSeq(d, tw)[i].title
        /\ PageSeq(d, aw)[i].type = PageSeq(d, tw)[i].type
        /\ PageSeq(d, aw)[i].content = PageSeq(d, tw)[i].content

Body(r) == [f \in DOMAIN r \ {"id", "page_id", "week_id", "module_id"} |-> r[f]]

\* The content of a page: its own fields and those of its questions,
\* resources and videos.
PageBody(d, x) ==
    [page |-> Body(x),
     questions |-> { Body(q) : q \in QuestionsOfPage(d, x) },
     resources |-> { Body(r) : r \in ResourcesOfPage(d, x) },
     videos |-> { Body(v) : v \in VideosOfPage(d, x) }]

\* The content of the pages of week w.
WeekBody(d, w) == { PageBody(d, x) : x \in PagesOfWeek(d, w) }

\* The template weeks whose number A did not have when the call began.
NewTemplateWeeks ==
    { tw \in WeeksOf(before, CallT) : tw.week_number \notin WeekNumbers(before, CallA) }

\* The weeks of A that carry tw's number.
CreatedFor(tw) == { aw \in WeeksOf(db, CallA) : aw.week_number = tw.week_number }

ExtraWeeks ==
    { w \in WeeksOf(before, CallA) : w.week_number \notin WeekNumbers(before, CallT) }

\* The rows under week w: its pages and their questions, resources and
\* videos, the posts of those questions, and its progress rows.
RowsUnder(d, w) ==
    [pages |-> PagesOfWeek(d, w),
     questions |-> UNION { QuestionsOfPage(d, x) : x \in PagesOfWeek(d, w) },
     resources |-> UNION { ResourcesOfPage(d, x) : x \in PagesOfWeek(d, w) },
     videos |-> UNION { VideosOfPage(d, x) : x \in PagesOfWeek(d, w) },
     posts |-> UNION { PostsOfQuestion(d, q) :
                         q \in UNION { QuestionsOfPage(d, x) : x \in PagesOfWeek(d, w) } },
     progress |-> ProgressOfWeek(d, w)]

\* C10: a call deletes no week of A, and leaves every week of A whose
\* number T does not have, and every row under it, exactly as it was.
C10_ExtraWeeksUntouched ==
    call # NoCall =>
        /\ \A w \in WeeksOf(before, CallA) : \E w2 \in WeeksOf(db, CallA) : w2.id = w.id
        /\ \A w \in ExtraWeeks :
              /\ w \in db.weeks
              /\ RowsUnder(db, w) = RowsUnder(before, w)

\* A clean run has rewritten a week of A while A has a week, with pages and
\* posts, whose number T does not have.
C10_Witness ==
    /\ CleanRun
    /\ \E w \in ExtraWeeks :
          /\ RowsUnder(before, w).pages # {}
          /\ RowsUnder(before, w).posts # {}
    /\ \E w \in WeeksOf(before, CallA), w2 \in WeeksOf(db, CallA) :
          w2.id = w.id /\ w2.title # w.title

\* The pairs <<aw, tw>>: a week aw that A had when the call began and the
\* template week tw with its number.
MatchedWeeks ==
    { <<aw, tw>> \in WeeksOf(before, CallA) \X WeeksOf(before, CallT) :
        aw.week_number = tw.week_number }

\* C11: after a clean run, for every week number in both T and A, every
\* template page at an index where the active week had no page has a copy
\* at that position in the active week: same title, type and content, same
\* questions, resources and videos, and no discussion post.
C11_MissingPagesCreated ==
    CleanRun =>
        \A m \in MatchedWeeks :
            \A i \in 1..Len(PageSeq(before, m[2])) :
                i > Len(PageSeq(before, m[1])) =>
                    /\ Len(PageSeq(db, m[1])) >= i
                    /\ PageBody(db, PageSeq(db, m[1])[i])
                         = PageBody(before, PageSeq(before, m[2])[i])
                    /\ \A q \in QuestionsOfPage(db, PageSeq(db, m[1])[i]) :
                          PostsOfQuestion(db, q) = {}

\* C12: after a clean run, no week of A whose number is in T has a page
\* beyond the template week's page count (those pages are deleted), and
\* the weeks of A whose number is not in T are kept.
C12_ExcessPagesDeleted ==
    CleanRun =>
        /\ \A m \in MatchedWeeks :
              Cardinality(PagesOfWeek(db, m[1])) <= Cardinality(PagesOfWeek(before, m[2]))
        /\ \A w \in ExtraWeeks : w \in db.weeks

\* What a resource and a video show: their fields and their position.
ResourceView(r) ==
    [title |-> r.title, url |-> r.url, description |-> r.description,
     sort_order |-> r.sort_order]

VideoView(v) ==
    [title |-> v.title, url |-> v.url, duration |-> v.duration,
     sort_order |-> v.sort_order]

\* The pairs <<ap, tp>>: a page ap of a week that A had when the call
\* began and the template page tp at the same index of the template week
\* with that number.
MatchedPages ==
    UNION { { <<PageSeq(before, m[1])[i], PageSeq(before, m[2])[i]>> :
                i \in 1..Min2(Len(PageSeq(before, m[1])), Len(PageSeq(before, m[2]))) }
            : m \in MatchedWeeks }

\* After a clean run the resources of every matched page are the template
\* page's, in the same order, and none of its old resource rows is left.
ResourcesReplaced ==
    CleanRun =>
        \A m \in MatchedPages :
            /\ { ResourceView(r) : r \in ResourcesOfPage(db, m[1]) }
                 = { ResourceView(r) : r \in ResourcesOfPage(before, m[2]) }
            /\ Cardinality(ResourcesOfPage(db, m[1]))
                 = Cardinality(ResourcesOfPage(before, m[2]))
            /\ ResourcesOfPage(db, m[1]) \cap ResourcesOfPage(before, m[1]) = {}

\* After a clean run the videos of every matched page are the template
\* page's, in the same order, and none of its old video rows is left.
VideosReplaced ==
    CleanRun =>
        \A m \in MatchedPages :
            /\ { VideoView(v) : v \in VideosOfPage(db, m[1]) }
                 = { VideoView(v) : v \in VideosOfPage(before, m[2]) }
            /\ Cardinality(VideosOfPage(db, m[1]))
                 = Cardinality(VideosOfPage(before, m[2]))
            /\ VideosOfPage(db, m[1]) \cap VideosOfPage(before, m[1]) = {}

\* C13: after a clean run, for every matched page the active page's
\* resources are the template page's (title, url, description, order) and
\* its videos are the template page's (title, url, duration, order), and no
\* resource or video row from before the run survives.
C13_ResourcesAndVideosReplaced ==
    ResourcesReplaced /\ VideosReplaced

\* The questions of page x in question_number order.
QuestionSeq(d, x) == OrderBy(QuestionsOfPage(d, x), "question_number")

ModuleInfo(m) ==
    [title |-> m.title, description |-> m.description,
     instructor |-> m.instructor, duration |-> m.duration,
     participation |-> m.participation,
     time_expectations |-> m.time_expectations]

\* The fields of a module row that belong to the module itself.
ModuleOwn(m) ==
    [status |-> m.status, template_id |-> m.template_id,
     launched_at |-> m.launched_at, archived_at |-> m.archived_at]

\* C15: every call leaves A's status, templateId, launchedAt and archivedAt
\* as they were; a clean run leaves A's title, description, instructor,
\* duration, participation and timeExpectations equal to T's.
C15_ModuleInfoOverwritten ==
    call # NoCall =>
        /\ { ModuleOwn(a) : a \in GetModule(db, CallA) } = { ModuleOwn(a) : a \in FoundA }
        /\ CleanRun =>
              { ModuleInfo(a) : a \in GetModule(db, CallA) }
                = { ModuleInfo(t) : t \in FoundT }

\* A clean run has changed A's title, and A is still launched.
C15_Witness ==
    /\ CleanRun
    /\ \E a0 \in FoundA, a \in GetModule(db, CallA) :
          /\ a.title # a0.title
          /\ a.instructor # a0.instructor
          /\ a.status = "launched"

\* The zoom info of module m.
ZoomOf(d, m) ==
    { [url |-> z.url, meeting_id |-> z.meeting_id, passcode |-> z.passcode,
       day |-> z.day, time |-> z.time, timezone |-> z.timezone]
      : z \in { r \in d.module_zoom_info : r.module_id = m } }

\* C16: after a clean run the zoom info of A (url, meeting id, passcode,
\* day, time, timezone) is that of T, also when T has none or has empty
\* fields.
C16_ZoomEqualsTemplate ==
    CleanRun => ZoomOf(db, CallA) = ZoomOf(db, CallT)

\* After a clean run from a template that has zoom info, A's is equal to it.
ZoomCopiedWhenPresent ==
    (CleanRun /\ ZoomOf(before, CallT) # {}) => ZoomOf(db, CallA) = ZoomOf(db, CallT)

\* The rows of d that do not belong to module m: the other module rows and
\* zoom rows, and the weeks, pages, questions, resources and videos that are
\* not under m.
RowsOutside(d, m) ==
    [modules |-> { r \in d.modules : r.id # m },
     module_zoom_info |-> { r \in d.module_zoom_info : r.module_id # m },
     weeks |-> d.weeks \ WeeksOf(d, m),
     pages |-> d.pages \ PagesOf(d, m),
     questions |-> d.questions \ QuestionsOf(d, m),
     resources |-> d.resources \ ResourcesOf(d, m),
     videos |-> d.videos \ VideosOf(d, m)]

\* C17: a call writes only rows of A: the module rows, zoom rows, weeks,
\* pages, questions, resources and videos that do not belong to A (those of
\* the template and of the other launched copy among them) are after the
\* call what they were before it, whether the call is refused, fails or
\* succeeds.
C17_OnlyRowsOfAWritten ==
    call # NoCall => RowsOutside(db, CallA) = RowsOutside(before, CallA)

\* A clean run has rewritten week 1 of A from week 1 of the template, while
\* the other launched copy has a week 1 of its own.
C17_Witness ==
    /\ CleanRun
    /\ \E aw \in WeeksOf(before, CallA), tw \in WeeksOf(before, CallT) :
          /\ aw.week_number = 1 /\ tw.week_number = 1
          /\ aw \notin db.weeks
    /\ \E ow \in WeeksOf(db, "m4") : ow.week_number = 1
    /\ PagesOf(db, CallA) # PagesOf(before, CallA)
    /\ PagesOf(db, CallT) # {}

\* The content state of module m: its template-owned module fields, its
\* zoom info, and for every week its number, fields and pages' content.
ContentState(d, m) ==
    [info |-> { ModuleInfo(r) : r \in GetModule(d, m) },
     zoom |-> ZoomOf(d, m),
     weeks |-> { [week |-> Body(w), pages |-> WeekBody(d, w)]
                 : w \in WeeksOf(d, m) }]

\* The latest call ran and one of its writes failed.
InterruptedRun == Ran /\ failed # {}

\* C18: when a run in which a write failed is followed by a clean run with
\* the same arguments, A's content state is the one a single clean run from
\* the state before the failed run gives.
C18_RetryEqualsUninterruptedRun ==
    [][ (InterruptedRun /\ Clean')
          => ContentState(db', CallA)
               = ContentState(SyncRun(before, CallT, CallA, {}).db, CallA) ]_vars

\* The same for a run that stopped with an error result.
RetryAfterReportedFailure ==
    [][ (InterruptedRun /\ ~result.success /\ Clean')
          => ContentState(db', CallA)
               = ContentState(SyncRun(before, CallT, CallA, {}).db, CallA) ]_vars

\* C19: every module that is launched or archived has no templateId, or
\* the templateId of an existing module whose status is draft.
C19_TemplateLinkIsDraftOrNull ==
    \A m \in db.modules :
        m.status \in {"launched", "archived"} =>
            \/ m.template_id = NULL
            \/ \E t \in db.modules : t.id = m.template_id /\ t.status = "draft"

\* The weaker statement: a templateId that is not NULL is that of an
\* existing module.
TemplateLinkExists ==
    \A m \in db.modules :
        m.template_id = NULL \/ \E t \in db.modules : t.id = m.template_id

\* The module the latest call named, as it was when the call began.
Target == { m \in before.modules : m.id = op.moduleId }

\* The latest call failed with this code and wrote no module data.
FailedBeforeAnyWrite(code) ==
    /\ ~result.success
    /\ \E e \in result.error : e.code = code
    /\ \A t \in DataTables : db[t] = before[t]

\* syncFromTemplate(A) on a launched A fails with NO_TEMPLATE when A has no
\* templateId and with TEMPLATE_NOT_FOUND when its templateId is that of no
\* module, and writes no module data.
SyncFromTemplateNeedsLink ==
    op.name = "syncFromTemplate" =>
        \A a \in Target :
            a.status = "launched" =>
                /\ a.template_id = NULL => FailedBeforeAnyWrite("NO_TEMPLATE")
                /\ (a.template_id # NULL /\ GetModule(before, a.template_id) = {})
                      => FailedBeforeAnyWrite("TEMPLATE_NOT_FOUND")

\* syncToActiveModule(T, A) fails and writes no module data when A has no
\* templateId.
SyncToActiveModuleNeedsLink ==
    op.name = "syncToActiveModule" =>
        \A a \in Target :
            a.template_id = NULL =>
                /\ ~result.success
                /\ \A t \in DataTables : db[t] = before[t]

\* C20: no sync entry point writes to a module without a template link:
\* syncFromTemplate(A) fails with NO_TEMPLATE or TEMPLATE_NOT_FOUND, and
\* syncToActiveModule(T, A) fails before any write when A has no templateId.
C20_NoSyncWithoutTemplateLink ==
    SyncFromTemplateNeedsLink /\ SyncToActiveModuleNeedsLink

\* syncFromTemplate has been called on a launched module with no templateId.
SyncFromTemplateOnFreestanding ==
    /\ op.name = "syncFromTemplate"
    /\ \E a \in Target : a.status = "launched" /\ a.template_id = NULL

\* The latest call was a syncFromTemplate that returned success.
SyncedFromTemplate == op.name = "syncFromTemplate" /\ result.success

\* The template the target of the latest call was linked to.
LinkedTemplate == { t \in before.modules : \E a \in Target : t.id = a.template_id }

\* After a successful syncFromTemplate(A), A's module info is that of its
\* template, and so is its zoom info when the template has some.
SyncFromTemplateCopiesInfo ==
    SyncedFromTemplate =>
        \A a \in Target, t \in LinkedTemplate :
            /\ { ModuleInfo(x) : x \in GetModule(db, a.id) } = {ModuleInfo(t)}
            /\ ZoomOf(before, t.id) # {} => ZoomOf(db, a.id) = ZoomOf(before, t.id)

\* After a successful syncFromTemplate(A), A's posts, progress rows and
\* weeks whose number the template lacks are those it had.
SyncFromTemplatePreserves ==
    SyncedFromTemplate =>
        \A a \in Target, t \in LinkedTemplate :
            /\ PostsOf(db, a.id) = PostsOf(before, a.id)
            /\ ProgressOf(db, a.id) = ProgressOf(before, a.id)
            /\ \A w \in WeeksOf(before, a.id) :
                  w.week_number \notin WeekNumbers(before, t.id) => w \in db.weeks

\* After a successful syncFromTemplate(A), every week of A whose number the
\* template has carries the template week's title and description, and its
\* pages at the indices both have carry the template pages' content.
SyncFromTemplateCopiesWeeks ==
    SyncedFromTemplate =>
        \A a \in Target, t \in LinkedTemplate :
            \A aw \in WeeksOf(db, a.id), tw \in WeeksOf(db, t.id) :
                aw.week_number = tw.week_number =>
                    /\ aw.title = tw.title
                    /\ OrNull(aw.description) = OrNull(tw.description)
                    /\ \A i \in 1..Min2(Len(PageSeq(db, aw)), Len(PageSeq(db, tw))) :
                          PageBody(db, PageSeq(db, aw)[i]).page.title
                            = PageBody(db, PageSeq(db, tw)[i]).page.title

\* C21: a successful syncFromTemplate(A) gives A the module info, the zoom
\* info and the week content (week title and description, pages) of its
\* template, and keeps A's discussions, progress and extra weeks.
C21_SyncFromTemplatePropagates ==
    /\ SyncFromTemplateCopiesInfo
    /\ SyncFromTemplateCopiesWeeks
    /\ SyncFromTemplatePreserves

\* The weeks, pages, questions, resources and videos of module m.
ContentRows(d, m) ==
    [weeks |-> WeeksOf(d, m), pages |-> PagesOf(d, m),
     questions |-> QuestionsOf(d, m), resources |-> ResourcesOf(d, m),
     videos |-> VideosOf(d, m)]

\* The stages of a run before its week reconciliation.
ModuleStage ==
    {"idle", "getActiveModule", "updateModule", "getZoomInfo", "updateZoomInfo"}

\* The module-level merge of the running call is in the database: A's
\* module info is the template's, and so is its zoom info when the template
\* has some.
ModuleLevelMerged ==
    /\ { ModuleInfo(a) : a \in GetModule(db, StepCall.activeModuleId) }
         = { ModuleInfo(t) : t \in sync.template }
    /\ sync.templateZoom # {} =>
          ZoomOf(db, StepCall.activeModuleId) = ZoomOf(db, StepCall.templateId)

\* C22: a step of a run that reads A's weeks or writes a week, page,
\* question, resource or video of A is taken after the module stage, with
\* the module fields and the zoom info of A already updated.
C22_ModuleMergeBeforeWeeks ==
    [][ ( \/ ContentRows(db', StepCall.activeModuleId)
               # ContentRows(db, StepCall.activeModuleId)
          \/ sync'.activeWeeks # sync.activeWeeks )
        => (sync.pc \notin ModuleStage /\ ModuleLevelMerged) ]_vars

\* The run has written a week of A after changing A's title and zoom url.
C22_Witness ==
    /\ sync.pc = "weekRecord"
    /\ WeeksOf(db, StepCall.activeModuleId) # WeeksOf(before, StepCall.activeModuleId)
    /\ \E a \in GetModule(db, StepCall.activeModuleId),
          a0 \in GetModule(before, StepCall.activeModuleId) : a.title # a0.title
    /\ ZoomOf(db, StepCall.activeModuleId) # ZoomOf(before, StepCall.activeModuleId)

\* Branch b has a storage call of its run still to make or to complete.
Pending(b) ==
    \/ b.page = "update"
    \/ b.resources \in {"delete", "insert"}
    \/ b.videos \in {"delete", "insert"}
    \/ b.pc \in {"content", "questions"}

\* The run has gone past the pages of a week: to the next week, or back to
\* its caller.
PastThePages == sync.pc \in {"week", "done"}

\* When no call is rejected, the run leaves the pages of a week with no
\* branch pending.
NothingPendingWithoutThrow ==
    (PastThePages /\ failed = {}) =>
        \A i \in DOMAIN sync.branch : ~ Pending(sync.branch[i])

\* C23: when the run moves on from a week, and when it returns, none of its
\* page branches has a storage call still to make, also when a page branch
\* has thrown.
C23_NothingPendingOnReturn ==
    PastThePages => \A i \in DOMAIN sync.branch : ~ Pending(sync.branch[i])

\* The run has returned success, no call was rejected.
StepRunOver == sync.pc = "done" /\ result.success /\ failed = {}

\* C24: whatever the order in which the page branches of a week, the page
\* update, resources and videos of a page, and the question updates of a
\* page complete, a run that returns success leaves A with the content that
\* the run with its calls in program order gives.
C24_BranchOrderDoesNotMatter ==
    StepRunOver =>
        ContentState(db, StepCall.activeModuleId)
          = ContentState(SyncRun(before, StepCall.templateId,
                                 StepCall.activeModuleId, {}).db,
                         StepCall.activeModuleId)

\* A run is over that had two page branches in its last matched week, each
\* with videos to replace and questions to update.
C24_Witness ==
    /\ StepRunOver
    /\ Len(sync.branch) = 2
    /\ Len(sync.activePagesList) = 2
    /\ \A i \in DOMAIN sync.branch : Len(sync.branch[i].existingQList) > 0
    /\ VideosOf(db, StepCall.activeModuleId) # VideosOf(before, StepCall.activeModuleId)

\* The latest call changed the target's module row to this and wrote nothing
\* else.
OnlyModuleRowBecomes(m, row) ==
    /\ result.success
    /\ db = [before EXCEPT !.modules = (@ \ {m}) \cup {row}]

\* archiveModule and restoreModule on a module of the right status: the
\* status and archivedAt are set and nothing else is written.
ArchiveRestoreSucceed ==
    \A m \in Target :
        /\ (op.name = "archiveModule" /\ m.status = "launched") =>
              OnlyModuleRowBecomes(m, [m EXCEPT !.status = "archived",
                                                !.archived_at = Now])
        /\ (op.name = "restoreModule" /\ m.status = "archived") =>
              OnlyModuleRowBecomes(m, [m EXCEPT !.status = "launched",
                                                !.archived_at = NULL])

\* The latest call was archiveModule or restoreModule on a module of
\* another status than the one it asks for.
WrongStatusFor(m) ==
    \/ op.name = "archiveModule" /\ m.status # "launched"
    \/ op.name = "restoreModule" /\ m.status # "archived"

Launched == op.name = "launchModule" /\ Target # {}

\* The module a successful launchModule has created.
NewModule == { m \in db.modules : m.id = ModuleId(before.seq.modules) }

\* The weeks of module m in week_number order.
WeekSeq(d, m) == OrderBy(WeeksOf(d, m), "week_number")

\* launchModule on a module with a week without unlock date returns
\* VALIDATION_ERROR and writes no module data.
LaunchNeedsUnlockDates ==
    (Launched /\ \E t \in Target : \E w \in WeeksOf(before, t.id) :
                    OrNull(w.unlock_date) = NULL)
        => FailedBeforeAnyWrite("VALIDATION_ERROR")

\* A successful launchModule(T) creates one module, launched, with
\* templateId T and T's module info, whose weeks are in order T's weeks:
\* title, description, unlock date and pages.
LaunchCopiesWeeks ==
    (Launched /\ result.success) =>
        \A t \in Target :
            /\ Cardinality(NewModule) = 1
            /\ \A m \in NewModule :
                  /\ m.status = "launched" /\ m.template_id = t.id
                  /\ ModuleInfo(m) = ModuleInfo(t)
                  /\ Len(WeekSeq(db, m.id)) = Len(WeekSeq(before, t.id))
                  /\ \A j \in 1..Len(WeekSeq(db, m.id)) :
                        LET nw == WeekSeq(db, m.id)[j]
                            tw == WeekSeq(before, t.id)[j]
                        IN /\ nw.title = tw.title
                           /\ nw.description = OrNull(tw.description)
                           /\ nw.unlock_date = tw.unlock_date
                           /\ WeekBody(db, nw) = WeekBody(before, tw)

\* A successful launchModule(T) gives the new module T's zoom info.
LaunchCopiesZoom ==
    (Launched /\ result.success) =>
        \A t \in Target, m \in NewModule :
            ZoomOf(db, m.id) = ZoomOf(before, t.id)

\* launchModule(T) leaves T's module row, zoom info and content as they were.
LaunchKeepsTemplate ==
    Launched =>
        \A t \in Target :
            /\ t \in db.modules
            /\ ZoomOf(db, t.id) = ZoomOf(before, t.id)
            /\ ContentRows(db, t.id) = ContentRows(before, t.id)

\* C26: launchModule(T) returns VALIDATION_ERROR and creates nothing when a
\* week of T has no unlock date; when it succeeds it has created a launched
\* module with templateId T, a copy of T's weeks and T's zoom info, and T is
\* as it was.
C26_LaunchCopiesTemplate ==
    /\ LaunchNeedsUnlockDates
    /\ LaunchCopiesWeeks
    /\ LaunchCopiesZoom
    /\ LaunchKeepsTemplate


\* ------------------------------------------------------------------
\* The scheduled backup worker: the cron handler and POST /trigger each
\* export the tables, put one object in the bucket and clean up old ones.
\* BackupSpec takes one call to the bucket per step, so that two runs of
\* the worker interleave at their awaits.
\* ------------------------------------------------------------------

MAX_BACKUPS == 7

Handlers == {"cron", "trigger"}

BackupPrefix == "backup-"

BucketObject(prefix, timestamp, uploaded) ==
    [key |-> [prefix |-> prefix, timestamp |-> timestamp],
     uploaded |-> uploaded]

\* getTimestamp(): the clock to the second; the clock counts seconds, while
\* the bucket stamps every upload with a time of its own that always grows.
getTimestamp == worker.clock

\* BACKUP_BUCKET.list({ prefix })
BucketList(b, prefix) == { o \in b : o.key.prefix = prefix }

\* BACKUP_BUCKET.put(key, ...): an object under the same key is replaced.
BucketPut(b, key, uploaded) ==
    { o \in b : o.key # key } \cup { [key |-> key, uploaded |-> uploaded] }

\* BACKUP_BUCKET.delete(key)
BucketDelete(b, key) == { o \in b : o.key # key }

\* listed.objects.sort((a, b) => new Date(b.uploaded) - new Date(a.uploaded))
RECURSIVE NewestFirst(_)
NewestFirst(S) ==
    IF S = {} THEN <<>>
    ELSE LET o == CHOOSE x \in S : \A y \in S : y.uploaded <= x.uploaded
         IN  <<o>> \o NewestFirst(S \ {o})

\* cleanupOldBackups: what it decides to delete from what it listed.
CleanupToDelete(b) ==
    LET sorted == NewestFirst(BucketList(b, BackupPrefix))
    IN  IF Len(sorted) > MAX_BACKUPS
        THEN SubSeq(sorted, MAX_BACKUPS + 1, Len(sorted))
        ELSE <<>>

IdleRun == [pc |-> "idle", filename |-> NULL, toDelete |-> <<>>,
            deleted |-> {}]

\* What no step of the worker changes.
NotWorker == <<db, before, call, result, failed, prevClean, runs, faulty,
               sync, student, added, op, auth, rival, edit, client>>

\* The bucket holds the backups of earlier days, and perhaps an object that
\* is no backup.
BackupInit ==
    \E n \in {0, MAX_BACKUPS - 1, MAX_BACKUPS}, foreign \in BOOLEAN,
       late \in BOOLEAN :
        /\ bucket = { BucketObject(BackupPrefix, i, i) : i \in 1..n }
                    \cup (IF foreign THEN {BucketObject("export-", 0, 0)}
                                     ELSE {})
        /\ worker = [clock |-> IF late THEN n + 1 ELSE n, stamp |-> n,
                     started |-> 0, run |-> [h \in Handlers |-> IdleRun]]
        /\ db = InitDb({1}, 1, 1, "T desc", {})
        /\ before = db
        /\ call = NoCall
        /\ result = Success("")
        /\ failed = {}
        /\ prevClean = FALSE
        /\ runs = 0
        /\ faulty = FALSE
        /\ sync = SyncIdle
        /\ student = StudentIdle
        /\ added = {}
        /\ op = NoOp
        /\ auth = AuthIdle
        /\ rival = RivalIdle
        /\ edit = EditIdle
        /\ client = ClientIdle

Resting(h) == worker.run[h].pc \in {"idle", "done", "failed", "unauthorized"}

\* A second passes.
BackupTick ==
    /\ worker.clock < MAX_BACKUPS + MaxRuns
    /\ worker' = [worker EXCEPT !.clock = @ + 1]
    /\ UNCHANGED <<bucket, NotWorker>>

\* The cron trigger fires, or POST /trigger arrives with the admin key.
BackupStart(h) ==
    /\ Resting(h)
    /\ worker.started < MaxRuns
    /\ worker' = [worker EXCEPT !.started = @ + 1,
                                !.run[h] = [IdleRun EXCEPT !.pc = "createBackup"]]
    /\ UNCHANGED <<bucket, NotWorker>>

\* POST /trigger without the admin key: 401, and nothing else.
TriggerUnauthorized ==
    /\ Resting("trigger")
    /\ worker.run["trigger"].pc # "unauthorized"
    /\ worker' = [worker EXCEPT !.run["trigger"] =
                                    [IdleRun EXCEPT !.pc = "unauthorized"]]
    /\ UNCHANGED <<bucket, NotWorker>>

\* createBackup: it throws when a table's export is not ok.
BackupCreate(h) ==
    /\ worker.run[h].pc = "createBackup"
    /\ \E ok \in BOOLEAN :
        worker' = [worker EXCEPT !.run[h].pc = IF ok THEN "put" ELSE "failed"]
    /\ UNCHANGED <<bucket, NotWorker>>

\* BACKUP_BUCKET.put(`backup-${getTimestamp()}.json`, ...)
BackupPut(h) ==
    /\ worker.run[h].pc = "put"
    /\ LET filename == [prefix |-> BackupPrefix, timestamp |-> getTimestamp]
       IN  /\ bucket' = BucketPut(bucket, filename, worker.stamp + 1)
           /\ worker' = [worker EXCEPT !.stamp = @ + 1,
                                       !.run[h].filename = filename,
                                       !.run[h].pc = "list"]
    /\ UNCHANGED NotWorker

\* cleanupOldBackups: the listing and the choice of what to delete.
BackupCleanupList(h) ==
    /\ worker.run[h].pc = "list"
    /\ worker' = [worker EXCEPT !.run[h].toDelete = CleanupToDelete(bucket),
                                !.run[h].pc = "delete"]
    /\ UNCHANGED <<bucket, NotWorker>>

\* cleanupOldBackups: one delete of the loop.
BackupCleanupDelete(h) ==
    /\ worker.run[h].pc = "delete"
    /\ worker.run[h].toDelete # <<>>
    /\ LET obj == Head(worker.run[h].toDelete)
       IN  /\ bucket' = BucketDelete(bucket, obj.key)
           /\ worker' = [worker EXCEPT !.run[h].toDelete = Tail(@),
                                       !.run[h].deleted = @ \cup {obj}]
    /\ UNCHANGED NotWorker

\* The run completes successfully.
BackupComplete(h) ==
    /\ worker.run[h].pc = "delete"
    /\ worker.run[h].toDelete = <<>>
    /\ worker' = [worker EXCEPT !.run[h].pc = "done"]
    /\ UNCHANGED <<bucket, NotWorker>>

BackupNext ==
    \/ BackupTick
    \/ TriggerUnauthorized
    \/ \E h \in Handlers :
        \/ BackupStart(h)
        \/ BackupCreate(h)
        \/ BackupPut(h)
        \/ BackupCleanupList(h)
        \/ BackupCleanupDelete(h)
        \/ BackupComplete(h)

BackupSpec == BackupInit /\ [][BackupNext]_vars

\* ---- C27 ----

Backups(b) == BucketList(b, BackupPrefix)

\* What the run r leaves: at most MAX_BACKUPS backups, its own among them,
\* and every backup it deleted older than every backup that is left.
Retained(b, r) ==
    /\ Cardinality(Backups(b)) <= MAX_BACKUPS
    /\ \E o \in Backups(b) : o.key = r.filename
    /\ \A o \in Backups(b) : \A x \in r.deleted : x.uploaded < o.uploaded

Completes(h) == worker.run[h].pc # "done" /\ worker'.run[h].pc = "done"

InFlight(h) == worker.run[h].pc \in {"list", "delete"}

\* A run that completes while no other run is between its put and its end
\* leaves at most MAX_BACKUPS backups.
RetentionWhenAlone ==
    [][\A h \in Handlers :
        (Completes(h) /\ \A g \in Handlers \ {h} : ~InFlight(g))
            => Retained(bucket', worker'.run[h])]_vars

\* A run has deleted an old backup and completed.
CleanupDeleted ==
    \E h \in Handlers :
        worker.run[h].pc = "done" /\ worker.run[h].deleted # {}

\* C27: when a backup run (cron or authorized POST /trigger) completes
\* successfully, the bucket holds at most 7 objects with prefix backup-,
\* the backup just written is among them, and only older backups were
\* deleted.
C27_RetentionAfterRun ==
    [][\A h \in Handlers :
        Completes(h) => Retained(bucket', worker'.run[h])]_vars


\* ------------------------------------------------------------------
\* The auth guards of a page (src/js/auth.js): getCurrentUser with its
\* 30-second cache, requireActiveUser and requireAdmin, beside the admin
\* functions that change the users table from another browser.
\* ------------------------------------------------------------------

UserIds == {"u1", "u2"}

UserRoles == {"student", "admin"}

UserStatuses == {"pending", "active", "inactive"}

\* .from('users').select(...).eq('id', id).single(): data, or null
ProfileOf(users, id) ==
    LET rows == { u \in users : u.id = id }
    IN  IF rows = {} THEN NoUser ELSE CHOOSE u \in rows : TRUE

\* getCurrentUser(): the cached profile while the cache is valid, else the
\* profile of the session's user, which it caches.
GetCurrentUser(a) ==
    IF a.cachedUser # NoUser /\ a.cacheFresh
    THEN [auth |-> a, user |-> a.cachedUser]
    ELSE IF a.session = NULL
    THEN [auth |-> [a EXCEPT !.cachedUser = NoUser], user |-> NoUser]
    ELSE LET profile == ProfileOf(a.users, a.session)
         IN  [auth |-> [a EXCEPT !.cachedUser = profile, !.cacheFresh = TRUE],
              user |-> profile]

RequireActiveUser(a) ==
    LET g == GetCurrentUser(a)
    IN  IF g.user = NoUser
        THEN [g.auth EXCEPT !.location = "login.html", !.returned = NoUser]
        ELSE IF g.user.status = "pending"
        THEN [g.auth EXCEPT !.location = "pending.html", !.returned = NoUser]
        ELSE [g.auth EXCEPT !.returned = g.user]

RequireAdmin(a) ==
    LET b == RequireActiveUser(a)
    IN  IF b.returned # NoUser /\ b.returned.role # "admin"
        THEN [b EXCEPT !.location = "index.html", !.returned = NoUser]
        ELSE b

\* What no step of the guards changes.
NotAuth == <<db, before, call, result, failed, prevClean, runs, faulty,
             sync, student, added, op, bucket, worker, rival, edit,
             client>>

\* u2 is an approved admin; u1 has any role and any status the schema
\* allows; the browser holds the session of one of them, or none.
AuthInit ==
    \E role \in UserRoles, status \in UserStatuses,
       session \in UserIds \cup {NULL} :
        /\ auth = [AuthIdle EXCEPT
                       !.users = { [id |-> "u1", role |-> role, status |-> status],
                                   [id |-> "u2", role |-> "admin", status |-> "active"] },
                       !.session = session]
        /\ db = InitDb({1}, 1, 1, "T desc", {})
        /\ before = db
        /\ call = NoCall
        /\ result = Success("")
        /\ failed = {}
        /\ prevClean = FALSE
        /\ runs = 0
        /\ faulty = FALSE
        /\ sync = SyncIdle
        /\ student = StudentIdle
        /\ added = {}
        /\ op = NoOp
        /\ bucket = {}
        /\ worker = WorkerIdle
        /\ rival = RivalIdle
        /\ edit = EditIdle
        /\ client = ClientIdle

\* A page calls its guard.
AuthRequireActiveUser ==
    /\ auth.calls < MaxRuns
    /\ auth.location = "page"
    /\ auth' = [RequireActiveUser(auth) EXCEPT !.guard = "requireActiveUser",
                                               !.calls = @ + 1]
    /\ UNCHANGED NotAuth

AuthRequireAdmin ==
    /\ auth.calls < MaxRuns
    /\ auth.location = "page"
    /\ auth' = [RequireAdmin(auth) EXCEPT !.guard = "requireAdmin",
                                          !.calls = @ + 1]
    /\ UNCHANGED NotAuth

\* The browser follows the redirect, or opens another page: the module
\* is loaded anew, with an empty cache.
AuthPageLoad ==
    /\ auth.guard # "none"
    /\ auth' = [auth EXCEPT !.cachedUser = NoUser, !.cacheFresh = FALSE,
                            !.guard = "none", !.location = "page",
                            !.returned = NoUser]
    /\ UNCHANGED NotAuth

\* CACHE_DURATION passes.
AuthCacheExpires ==
    /\ auth.cacheFresh
    /\ auth' = [auth EXCEPT !.cacheFresh = FALSE]
    /\ UNCHANGED NotAuth

\* approveUser(userId), by the admin in another browser
AuthApproveUser(id) ==
    /\ \E u \in auth.users : u.id = id /\ u.status # "active"
    /\ auth' = [auth EXCEPT !.users =
                    { IF u.id = id THEN [u EXCEPT !.status = "active"] ELSE u
                      : u \in @ }]
    /\ UNCHANGED NotAuth

\* rejectUser(userId), by the admin in another browser
AuthRejectUser(id) ==
    /\ \E u \in auth.users : u.id = id
    /\ auth' = [auth EXCEPT !.users = { u \in @ : u.id # id }]
    /\ UNCHANGED NotAuth

\* updateUserRole(userId, role), by the admin in another browser
AuthUpdateUserRole(id, role) ==
    /\ \E u \in auth.users : u.id = id /\ u.role # role
    /\ auth' = [auth EXCEPT !.users =
                    { IF u.id = id THEN [u EXCEPT !.role = role] ELSE u
                      : u \in @ }]
    /\ UNCHANGED NotAuth

AuthNext ==
    \/ AuthRequireActiveUser
    \/ AuthRequireAdmin
    \/ AuthPageLoad
    \/ AuthCacheExpires
    \/ AuthApproveUser("u1")
    \/ AuthRejectUser("u1")
    \/ \E role \in UserRoles : AuthUpdateUserRole("u1", role)

AuthSpec == AuthInit /\ [][AuthNext]_vars

\* ---- C28 ----

GuardCalled == auth'.calls # auth.calls

\* The profile the guard may return: that of the session's user, if that
\* user is active and, for requireAdmin, an admin.
Admitted(a) ==
    LET u == IF a.session = NULL THEN NoUser
             ELSE ProfileOf(a.users, a.session)
    IN  IF /\ u # NoUser
           /\ u.status = "active"
           /\ (a.guard = "requireAdmin" => u.role = "admin")
        THEN u ELSE NoUser

GuardContract(a) ==
    /\ a.returned = Admitted(a)
    /\ a.returned = NoUser => a.location # "page"

\* Reading the users table (no valid cache), a guard never admits a user
\* who is not signed in, has no profile or is pending, and requireAdmin
\* admits admins only.
GuardRefusesPending ==
    [][(GuardCalled /\ ~(auth.cachedUser # NoUser /\ auth.cacheFresh))
        => LET u == IF auth'.session = NULL THEN NoUser
                    ELSE ProfileOf(auth'.users, auth'.session)
           IN  /\ auth'.returned # NoUser
                    => /\ auth'.returned = u
                       /\ u.status # "pending"
                       /\ (auth'.guard = "requireAdmin" => u.role = "admin")
               /\ auth'.returned = NoUser => auth'.location # "page"]_vars

\* A guard has returned the profile of an inactive user.
InactiveAdmitted ==
    auth.returned # NoUser /\ auth.returned.status = "inactive"

\* C28: requireActiveUser returns a profile only for an authenticated user
\* whose status is active, and returns null after redirecting for an
\* unauthenticated, pending or inactive user; requireAdmin returns a
\* profile only when the user's role is admin as well.
C28_GuardsAdmitActiveOnly ==
    [][GuardCalled => GuardContract(auth')]_vars


\* ------------------------------------------------------------------
\* RaceSpec: beside the sync call of StepSpec, taken one storage call per
\* step, another admin's call on the same module runs between two of its
\* storage calls: a second syncToActiveModule(T, A), or archiveModule(A).
\* ------------------------------------------------------------------

\* The sync call has begun and has not returned.
SyncRunning == sync.pc \notin {"idle", "done"}

\* The sync call is past its check of A's status.
PastStatusCheck == sync.pc \notin {"idle", "getActiveModule", "done"}

\* What a call of the other admin leaves alone.
RivalFixed == <<before, call, result, sync, student, added, failed,
                prevClean, runs, faulty, op, bucket, worker, auth, edit,
                client>>

\* The other admin's syncToActiveModule(T, A).
RivalSync ==
    /\ rival.pc = "idle"
    /\ SyncRunning
    /\ db' = SyncRun(db, StepCall.templateId, StepCall.activeModuleId, {}).db
    /\ rival' = [name |-> "syncToActiveModule", pc |-> "done"]
    /\ UNCHANGED RivalFixed

\* The other admin's archiveModule(A).
RivalArchive ==
    /\ rival.pc = "idle"
    /\ PastStatusCheck
    /\ db' = ArchiveModule(db, StepCall.activeModuleId).db
    /\ rival' = [name |-> "archiveModule", pc |-> "done"]
    /\ UNCHANGED RivalFixed

RaceNext == SyncSteps \/ RivalSync \/ RivalArchive

RaceSpec == StepInit /\ [][RaceNext]_vars

\* ---- C29 ----

\* How many weeks, pages, questions, resources and videos module m has.
RowCounts(d, m) ==
    [weeks |-> Cardinality(WeeksOf(d, m)),
     pages |-> Cardinality(PagesOf(d, m)),
     questions |-> Cardinality(QuestionsOf(d, m)),
     resources |-> Cardinality(ResourcesOf(d, m)),
     videos |-> Cardinality(VideosOf(d, m))]

\* Both runs are over, and the stepwise one returned success.
BothSyncsOver ==
    /\ StepRunOver
    /\ \A i \in DOMAIN sync.branch : ~ Pending(sync.branch[i])
    /\ rival = [name |-> "syncToActiveModule", pc |-> "done"]

\* No week number of A is taken twice.
NoWeekNumberTwice ==
    \A w1, w2 \in WeeksOf(db, StepCall.activeModuleId) :
        w1.week_number = w2.week_number => w1 = w2

\* Two concurrent runs never leave A with a week number taken twice.
WeekNumbersStayUnique == BothSyncsOver => NoWeekNumberTwice

\* C29: when two syncToActiveModule(T, A) runs execute concurrently, A ends
\* in the state a single run produces: the same content, with no
\* duplicated or missing resource, video or question and no week number
\* taken twice.
C29_ConcurrentRunsEqualOneRun ==
    BothSyncsOver =>
        LET one == SyncRun(before, StepCall.templateId,
                           StepCall.activeModuleId, {}).db
        IN  /\ ContentState(db, StepCall.activeModuleId)
                 = ContentState(one, StepCall.activeModuleId)
            /\ RowCounts(db, StepCall.activeModuleId)
                 = RowCounts(one, StepCall.activeModuleId)
            /\ NoWeekNumberTwice

\* ---- C30 ----

\* A's module row, zoom info, weeks, pages, questions, resources, videos.
ModuleData(d, m) ==
    [module |-> GetModule(d, m),
     zoom |-> { z \in d.module_zoom_info : z.module_id = m },
     content |-> ContentRows(d, m)]

Archived ==
    /\ rival = [name |-> "archiveModule", pc |-> "done"]
    /\ \E m \in GetModule(db, StepCall.activeModuleId) : m.status = "archived"

\* C30: once archiveModule(A) has completed during a syncToActiveModule(T, A)
\* run, that run writes no more to A's module row, zoom info, weeks, pages,
\* questions, resources or videos.
C30_NoWriteAfterArchive ==
    [][Archived => ModuleData(db', StepCall.activeModuleId)
                     = ModuleData(db, StepCall.activeModuleId)]_vars

\* ---- C31 ----

\* A sync of the template to the module launchModule has just created
\* leaves it with the weeks it has.
SyncAfterLaunchCreatesNoWeek ==
    \A t \in Target, m \in NewModule :
        Cardinality(WeeksOf(SyncRun(db, t.id, m.id, {}).db, m.id))
            = Cardinality(WeeksOf(db, m.id))

\* launchModule has copied a template whose week numbers are not 1..n.
LaunchedWithGap ==
    /\ Launched /\ result.success
    /\ \E t \in Target :
          WeekNumbers(before, t.id) # 1..Cardinality(WeeksOf(before, t.id))

\* When the template's week numbers are 1..n, the copy has the same
\* numbers and a sync right after the launch creates no week.
LaunchKeepsContiguousNumbers ==
    (Launched /\ result.success /\ ~LaunchedWithGap) =>
        /\ \A t \in Target, m \in NewModule :
              WeekNumbers(db, m.id) = WeekNumbers(before, t.id)
        /\ SyncAfterLaunchCreatesNoWeek

\* C31: launchModule(T) gives each copied week the week number of its
\* template week, also when T's numbers are not 1..n, so that
\* syncToActiveModule(T, A) on the fresh copy A creates no week.
C31_LaunchKeepsWeekNumbers ==
    (Launched /\ result.success) =>
        /\ \A t \in Target, m \in NewModule :
              WeekNumbers(db, m.id) = WeekNumbers(before, t.id)
        /\ SyncAfterLaunchCreatesNoWeek

\* ------------------------------------------------------------------
\* Progress: savePagePosition, clearPagePosition, completeWeek and
\* isWeekCompleted, in the Supabase data service (table progress) and in
\* the localStorage data service (one key per module, week and item).
\* ------------------------------------------------------------------

ProgressModule == "m2"

ProgressUsers == {"u1", "u2"}

\* .from('weeks').select('id').eq('module_id', m).eq('week_number', w).single()
WeekRecordOf(d, moduleId, weekId) ==
    { w \in d.weeks : w.module_id = moduleId /\ w.week_number = weekId }

ProgressRowsOf(d, userId, weekRowId) ==
    { g \in d.progress : g.user_id = userId /\ g.week_id = weekRowId }

\* .from('progress').upsert(payload, { onConflict: 'user_id,week_id' }): the
\* row of that user and week takes the payload's columns and keeps its
\* others; without such a row one is inserted with the schema's defaults.
UpsertProgress(d, payload) ==
    LET old == ProgressRowsOf(d, payload.user_id, payload.week_id)
        ids == { g.id : g \in d.progress }
        newId == IF ids = {} THEN 1
                 ELSE 1 + CHOOSE n \in ids : \A k \in ids : k <= n
        fresh == [id |-> newId, current_page |-> 1, completed |-> FALSE,
                  completed_at |-> NULL]
    IN [d EXCEPT !.progress =
            IF old = {} THEN @ \cup { payload @@ fresh }
            ELSE (@ \ old) \cup { payload @@ g : g \in old }]

\* savePagePosition of the Supabase data service: [db, returned].
SavePagePosition(d, userId, moduleId, weekId, pageNumber) ==
    LET weekRecord == WeekRecordOf(d, moduleId, weekId)
    IN IF weekRecord = {} THEN [db |-> d, returned |-> NULL]
       ELSE [db |-> UpsertProgress(d, [user_id |-> userId,
                                       week_id |-> TheRow(weekRecord).id,
                                       current_page |-> pageNumber,
                                       completed |-> FALSE]),
             returned |-> pageNumber]

ClearPagePosition(d, userId, moduleId, weekId) ==
    LET weekRecord == WeekRecordOf(d, moduleId, weekId)
    IN IF weekRecord = {} THEN [db |-> d, returned |-> NULL]
       ELSE [db |-> [d EXCEPT !.progress =
                        @ \ ProgressRowsOf(d, userId, TheRow(weekRecord).id)],
             returned |-> NULL]

CompleteWeek(d, userId, moduleId, weekId) ==
    LET weekRecord == WeekRecordOf(d, moduleId, weekId)
    IN IF weekRecord = {} THEN [db |-> d, returned |-> FALSE]
       ELSE [db |-> UpsertProgress(d, [user_id |-> userId,
                                       week_id |-> TheRow(weekRecord).id,
                                       completed |-> TRUE,
                                       completed_at |-> Now]),
             returned |-> TRUE]

\* return data?.completed || false
IsWeekCompleted(d, userId, moduleId, weekId) ==
    \E w \in WeekRecordOf(d, moduleId, weekId) :
        \E g \in ProgressRowsOf(d, userId, w.id) : g.completed

\* localStorage, as a function from keys to values.
StorageKey(moduleId, weekId, item) ==
    [moduleId |-> moduleId, weekId |-> weekId, item |-> item]

StorageSet(s, key, value) ==
    [k \in DOMAIN s \cup {key} |-> IF k = key THEN value ELSE s[k]]

StorageDelete(s, key) == [k \in DOMAIN s \ {key} |-> s[k]]

\* The localStorage data service.
LocalSavePagePosition(s, moduleId, weekId, pageNumber) ==
    StorageSet(s, StorageKey(moduleId, weekId, "pagePosition"),
               [page |-> pageNumber, savedAt |-> Now])

LocalClearPagePosition(s, moduleId, weekId) ==
    StorageDelete(s, StorageKey(moduleId, weekId, "pagePosition"))

LocalCompleteWeek(s, moduleId, weekId) ==
    LocalClearPagePosition(
        StorageSet(s, StorageKey(moduleId, weekId, "completed"), TRUE),
        moduleId, weekId)

\* this.get(key, false)
LocalIsWeekCompleted(s, moduleId, weekId) ==
    StorageKey(moduleId, weekId, "completed") \in DOMAIN s

\* The module has week 1, or weeks 1 and 2; user u1 has completed week 1.
ProgressInit ==
    \E aW \in {{1}, {1, 2}} :
        /\ db = InitDb({1}, 1, 1, "T desc", aW)
        /\ before = db
        /\ call = NoCall
        /\ result = Success("")
        /\ failed = {}
        /\ prevClean = FALSE
        /\ runs = 0
        /\ faulty = FALSE
        /\ sync = SyncIdle
        /\ student = StudentIdle
        /\ added = {}
        /\ op = NoOp
        /\ OutsideIdle

\* One call of a student; service is the data service that takes it.
ProgressCall(name, service, d2, s2) ==
    /\ runs < MaxRuns
    /\ db' = d2
    /\ client' = [client EXCEPT !.storage = s2]
    /\ before' = db
    /\ op' = [name |-> name, moduleId |-> ProgressModule, service |-> service]
    /\ runs' = runs + 1
    /\ UNCHANGED <<call, result, failed, prevClean, faulty, sync, student,
                   added, bucket, worker, auth, rival, edit>>

ProgressSavePagePosition ==
    \E u \in ProgressUsers, w \in Weeks, p \in 1..MaxItems :
        ProgressCall("savePagePosition", "supabase",
                     SavePagePosition(db, u, ProgressModule, w, p).db,
                     client.storage)

ProgressClearPagePosition ==
    \E u \in ProgressUsers, w \in Weeks :
        ProgressCall("clearPagePosition", "supabase",
                     ClearPagePosition(db, u, ProgressModule, w).db,
                     client.storage)

ProgressCompleteWeek ==
    \E u \in ProgressUsers, w \in Weeks :
        ProgressCall("completeWeek", "supabase",
                     CompleteWeek(db, u, ProgressModule, w).db,
                     client.storage)

ProgressLocalSavePagePosition ==
    \E w \in Weeks, p \in 1..MaxItems :
        ProgressCall("savePagePosition", "local", db,
                     LocalSavePagePosition(client.storage, ProgressModule, w, p))

ProgressLocalClearPagePosition ==
    \E w \in Weeks :
        ProgressCall("clearPagePosition", "local", db,
                     LocalClearPagePosition(client.storage, ProgressModule, w))

ProgressLocalCompleteWeek ==
    \E w \in Weeks :
        ProgressCall("completeWeek", "local", db,
                     LocalCompleteWeek(client.storage, ProgressModule, w))

ProgressNext ==
    \/ ProgressSavePagePosition
    \/ ProgressClearPagePosition
    \/ ProgressCompleteWeek
    \/ ProgressLocalSavePagePosition
    \/ ProgressLocalClearPagePosition
    \/ ProgressLocalCompleteWeek

ProgressSpec == ProgressInit /\ [][ProgressNext]_vars

\* ---- C32 ----

\* The weeks isWeekCompleted answers true for, per user, in each service.
CompletedInSupabase(d) ==
    { <<u, w>> \in ProgressUsers \X Weeks :
        IsWeekCompleted(d, u, ProgressModule, w) }

CompletedInLocal(s) ==
    { w \in Weeks : LocalIsWeekCompleted(s, ProgressModule, w) }

SavedPosition(service) ==
    /\ runs' # runs
    /\ op'.name = "savePagePosition"
    /\ op'.service = service

\* In the localStorage data service savePagePosition leaves every
\* completion in place.
LocalSaveKeepsCompletion ==
    [][SavedPosition("local")
        => CompletedInLocal(client.storage)
             \subseteq CompletedInLocal(client'.storage)]_vars

\* In the Supabase data service savePagePosition leaves the completions of
\* other users and other weeks in place.
SaveKeepsOtherCompletions ==
    [][SavedPosition("supabase")
        => Cardinality(CompletedInSupabase(db) \ CompletedInSupabase(db')) <= 1]_vars

\* C32: once a week is completed for a user, isWeekCompleted stays true for
\* that user after savePagePosition calls, in the Supabase data service as
\* in the localStorage data service.
C32_SaveKeepsCompletion ==
    [][(SavedPosition("supabase") \/ SavedPosition("local"))
        => /\ CompletedInSupabase(db) \subseteq CompletedInSupabase(db')
           /\ CompletedInLocal(client.storage)
                \subseteq CompletedInLocal(client'.storage)]_vars

\* ------------------------------------------------------------------
\* PostSpec: deleteDiscussionPost, one storage call per step, beside the
\* student's addDiscussionPost / addReply of StepSpec.
\* ------------------------------------------------------------------

\* discussion_posts.is_deleted, false unless set
IsDeleted(o) == "is_deleted" \in DOMAIN o /\ o.is_deleted

RepliesTo(d, postId) == { o \in d.discussion_posts : o.parent_id = postId }

\* parent_id ... ON DELETE CASCADE: the posts that go with the posts ids.
RECURSIVE CascadePosts(_, _)
CascadePosts(d, ids) ==
    LET more == { o.id : o \in { x \in d.discussion_posts :
                                   x.parent_id \in ids /\ x.id \notin ids } }
    IN IF more = {} THEN ids ELSE CascadePosts(d, ids \cup more)

\* .update({ is_deleted: true, content: '' }).eq('id', postId)
SoftDeletePost(d, postId) ==
    [d EXCEPT !.discussion_posts =
        { IF o.id = postId
          THEN [is_deleted |-> TRUE, content |-> ""] @@ o ELSE o : o \in @ }]

\* .delete().eq('id', postId)
HardDeletePost(d, postId) ==
    [d EXCEPT !.discussion_posts =
        { o \in @ : o.id \notin CascadePosts(d, {postId}) }]

\* What a step of deleteDiscussionPost leaves alone.
DeleterFixed == <<before, call, result, sync, student, added, failed,
                  prevClean, runs, faulty, op, bucket, worker, auth, rival,
                  client>>

\* deleteDiscussionPost(postId): the select of a reply.
DeleteCheckReplies ==
    /\ edit = EditIdle
    /\ \E o \in { x \in db.discussion_posts : x.parent_id = NoId } :
          edit' = [pc |-> IF RepliesTo(db, o.id) # {} THEN "soft" ELSE "hard",
                   postId |-> o.id, hadReply |-> FALSE]
    /\ UNCHANGED <<db, DeleterFixed>>

\* deleteDiscussionPost: the soft delete.
DeleteSoft ==
    /\ edit # EditIdle
    /\ edit.pc = "soft"
    /\ db' = SoftDeletePost(db, edit.postId)
    /\ edit' = [edit EXCEPT !.pc = "done",
                            !.hadReply = RepliesTo(db, edit.postId) # {}]
    /\ UNCHANGED DeleterFixed

\* deleteDiscussionPost: the hard delete.
DeleteHard ==
    /\ edit # EditIdle
    /\ edit.pc = "hard"
    /\ db' = HardDeletePost(db, edit.postId)
    /\ edit' = [edit EXCEPT !.pc = "done",
                            !.hadReply = RepliesTo(db, edit.postId) # {}]
    /\ UNCHANGED DeleterFixed

PostNext == StudentSteps \/ DeleteCheckReplies \/ DeleteSoft \/ DeleteHard

\* The database of StepSpec, where every post of A has a reply, or the
\* same without the replies.
PostInit ==
    \E aW \in StepActiveWeekSets, replies \in BOOLEAN :
        /\ db = LET d == InitDb(StepTemplateWeeks, MaxItems, MaxItems,
                                "T desc", aW)
                IN IF replies THEN d
                   ELSE [d EXCEPT !.discussion_posts =
                                     { o \in @ : o.parent_id = NoId }]
        /\ before = db
        /\ call = NoCall
        /\ result = Success("")
        /\ failed = {}
        /\ prevClean = FALSE
        /\ runs = 0
        /\ faulty = FALSE
        /\ sync = SyncIdle
        /\ student = StudentIdle
        /\ added = {}
        /\ op = NoOp
        /\ OutsideIdle

PostSpec == PostInit /\ [][PostNext]_vars

\* ---- C33 ----

Deleted == edit # EditIdle /\ edit.pc = "done"

\* The post is still a row, marked deleted and without content.
SoftDeleted(postId) ==
    \E o \in db.discussion_posts :
        o.id = postId /\ IsDeleted(o) /\ o.content = ""

\* A post that had a reply from the start is soft-deleted and its replies
\* stay; a post that had none and gets none before the delete is removed.
DeleteFollowsWhatItRead ==
    Deleted =>
        /\ RepliesTo(before, edit.postId) # {}
              => /\ SoftDeleted(edit.postId)
                 /\ RepliesTo(before, edit.postId) \subseteq db.discussion_posts
        /\ (RepliesTo(before, edit.postId) = {} /\ ~edit.hadReply)
              => \A o \in db.discussion_posts : o.id # edit.postId

\* Every reply the student added is a row, and so is its parent.
AddedRepliesKept ==
    \A a \in added :
        a.post.parent_id # NoId =>
            /\ a.post \in db.discussion_posts
            /\ \E o \in db.discussion_posts : o.id = a.post.parent_id

\* The student's reply was added before the post it answers was deleted.
ReplyBeforeDelete ==
    /\ Deleted /\ edit.hadReply
    /\ \E a \in added : a.post.parent_id = edit.postId

\* C33: deleting a post that has a reply soft-deletes it and leaves its
\* replies in place, a post without replies is removed; a reply that was
\* added is never removed or left without its parent row by the deletion of
\* its parent, also when addReply and deleteDiscussionPost interleave.
C33_RepliesSurviveParentDeletion ==
    /\ Deleted =>
          IF edit.hadReply
          THEN /\ SoftDeleted(edit.postId)
               /\ RepliesTo(db, edit.postId) # {}
          ELSE \A o \in db.discussion_posts : o.id # edit.postId
    /\ AddedRepliesKept

(***************************************************************************)
(* updateWeek, one storage call at a time, by two editors of the same      *)
(* launched module.  A weeks row carries updated_at; the trigger           *)
(* update_updated_at_column sets it to NOW() on every UPDATE of the row.   *)
(* Time is counted in ticks of the database clock, two to the millisecond  *)
(* of a JavaScript Date.                                                   *)
(***************************************************************************)
Editors == {"e1", "e2"}

EditModule == "m2"

\* new Date(timestamp).getTime(): milliseconds, the rest is dropped.
GetTime(timestamp) == timestamp \div 2

\* NOW() of an UPDATE: later than the row's last UPDATE, by one tick or more.
UpdateTimes(row) == { row.updated_at + 1, row.updated_at + 2 }

\* The weeks rows with their updated_at column, all written at tick 2.
WithUpdatedAt(d) ==
    [d EXCEPT !.weeks = { [updated_at |-> 2] @@ w : w \in @ }]

\* pageData of an editor's save: nQ questions, or no questions property.
EditPageData(i, nQ, hasQuestions) ==
    LET base == [title |-> "E page " \o ToString(i), type |-> "discussion",
                 content |-> "",
                 resources |-> << [title |-> "E reading", url |-> "",
                                   description |-> "E note"] >>,
                 videos |-> <<>>]
    IN IF hasQuestions
       THEN base @@ [questions |-> [k \in 1..nQ |->
                                      [text |-> "E question " \o ToString(k)]]]
       ELSE base

EditPages(nP, nQ, hasQuestions) ==
    [i \in 1..nP |-> EditPageData(i, nQ, hasQuestions)]

\* The updates an editor saves: a title, pages, or both; the second editor
\* changes the title or the first page.
EditUpdates(e) ==
    LET titles == { [title |-> "E title " \o e] }
        pages == { [pages |-> EditPages(nP, nQ, hasQuestions)] :
                     nP \in 0..MaxItems, nQ \in {0, 1, MaxItems},
                     hasQuestions \in {TRUE} }
                  \cup { [pages |-> EditPages(1, 0, FALSE)] }
    IN IF e = "e1"
       THEN titles \cup pages \cup { t @@ p : t \in titles, p \in pages }
       ELSE titles \cup { [pages |-> EditPages(1, 0, FALSE)] }

\* dbUpdates: the columns of the properties of updates that are not
\* undefined.
DbUpdates(updates) ==
    LET Column(c) == IF c = "unlockDate" THEN "unlock_date" ELSE c
        Field(col) == IF col = "unlock_date" THEN "unlockDate" ELSE col
        given == { c \in {"title", "description", "unlockDate"} :
                     c \in DOMAIN updates }
    IN [col \in { Column(c) : c \in given } |-> updates[Field(col)]]

\* update weeks set dbUpdates where id = weekRowId, at time now.
UpdateWeekRow(d, weekRowId, dbUpdates, now) ==
    [d EXCEPT !.weeks = { IF w.id = weekRowId
                          THEN ([updated_at |-> now] @@ dbUpdates) @@ w
                          ELSE w : w \in @ }]

\* update pages set title, type, content || null where id = pageId
UpdateWeekPageRow(d, pageId, pageData) ==
    [d EXCEPT !.pages =
        { IF x.id = pageId
          THEN [x EXCEPT !.title = pageData.title, !.type = pageData.type,
                         !.content = OrNull(pageData.content)]
          ELSE x : x \in @ }]

\* The resources and the videos of an existing page: deleted, then inserted.
UpdateWeekResources(d, pageId, pageData) ==
    LET d1 == DeleteResourcesOfPage(d, pageId)
    IN IF "resources" \in DOMAIN pageData /\ Len(pageData.resources) > 0
       THEN Insert(d1, "resources", CreateResourcePayloads(pageId, pageData))
       ELSE d1

UpdateWeekVideos(d, pageId, pageData) ==
    LET d1 == DeleteVideosOfPage(d, pageId)
    IN IF "videos" \in DOMAIN pageData /\ Len(pageData.videos) > 0
       THEN Insert(d1, "videos", CreateVideoPayloads(pageId, pageData))
       ELSE d1

\* The rows of existingQuestions with a number beyond the new count, when
\* there are more rows than new questions.
ExcessQuestions(existingQuestions, count) ==
    IF Len(existingQuestions) > count
    THEN { existingQuestions[j].id :
             j \in { x \in 1..Len(existingQuestions) :
                       existingQuestions[x].question_number > count } }
    ELSE {}

\* Every question of the page deleted and the new ones inserted (not what
\* the code does).
UpdateWeekQuestionsReplace(d, pageId, questions) ==
    LET ids == { q.id : q \in { x \in d.questions : x.page_id = pageId } }
    IN Insert(DeleteQuestionRows(d, ids), "questions",
              [k \in 1..Len(questions) |->
                 [page_id |-> pageId, question_number |-> k,
                  text |-> questions[k].text]])

\* The questions of an existing page: the text of a question with a known
\* number is updated by row id, the others are inserted in one batch, and
\* the rows beyond the new count are deleted.
UpdateWeekQuestions(d, pageId, questions) ==
    LET existingQuestions == ExistingQuestions(d, pageId)
        st == [db |-> d, failed |-> {}, thrown |-> FALSE]
        st1 == QuestionUpdates(st, existingQuestions, questions, 0, 0, 1, {})
        questionInserts == QuestionInserts(pageId, existingQuestions, questions, 1)
        d2 == IF Len(questionInserts) > 0
              THEN Insert(st1.db, "questions", questionInserts)
              ELSE st1.db
    IN DeleteQuestionRows(d2, ExcessQuestions(existingQuestions, Len(questions)))

\* existingPages.find(p => p.page_number === pageNumber)
FindPage(existingPages, pageNumber) ==
    LET js == { j \in 1..Len(existingPages) :
                  existingPages[j].page_number = pageNumber }
    IN IF js = {} THEN {}
       ELSE {existingPages[CHOOSE j \in js : \A j2 \in js : j <= j2]}

\* createPage reads the collections it is given; one it is not given is
\* skipped as an empty one is.
PageDataForCreate(pageData) ==
    pageData @@ [questions |-> <<>>, resources |-> <<>>, videos |-> <<>>]

\* One entry of updates.pages.
UpdateWeekPage(d, weekRowId, existingPages, pageNumber, pageData) ==
    LET existingPage == FindPage(existingPages, pageNumber)
    IN IF existingPage # {}
       THEN LET pageId == TheRow(existingPage).id
                d1 == UpdateWeekPageRow(d, pageId, pageData)
                d2 == UpdateWeekResources(d1, pageId, pageData)
                d3 == UpdateWeekVideos(d2, pageId, pageData)
            IN IF "questions" \in DOMAIN pageData
               THEN UpdateWeekQuestions(d3, pageId, pageData.questions)
               ELSE d3
       ELSE CreatePage([db |-> d, failed |-> {}, thrown |-> FALSE], weekRowId,
                       pageNumber, PageDataForCreate(pageData), 0, {}).db

RECURSIVE UpdateWeekPagesFrom(_, _, _, _, _)
UpdateWeekPagesFrom(d, weekRowId, existingPages, pages, i) ==
    IF i > Len(pages) THEN d
    ELSE UpdateWeekPagesFrom(
             UpdateWeekPage(d, weekRowId, existingPages, i, pages[i]),
             weekRowId, existingPages, pages, i + 1)

\* The pages with a number beyond the new count, when there are more pages
\* than new ones.
ExcessPages(existingPages, count) ==
    IF Len(existingPages) > count
    THEN { existingPages[j].id :
             j \in { x \in 1..Len(existingPages) :
                       existingPages[x].page_number > count } }
    ELSE {}

\* if (updates.pages): the entries of updates.pages (the pages are disjoint,
\* taken here in page order), then the pages beyond the new count.
UpdateWeekPages(d, weekRowId, pages) ==
    LET existingPages == ActivePagesList(d, weekRowId)
        d1 == UpdateWeekPagesFrom(d, weekRowId, existingPages, pages, 1)
    IN DeletePageRows(d1, ExcessPages(existingPages, Len(pages)))

\* An editor: the week it has open (loaded holds the updatedAt getWeek
\* returned, or nothing), and the arguments and locals of its updateWeek
\* call.  Each editor saves once.
EditorIdle ==
    [pc |-> "idle", weekId |-> 1, loaded |-> {}, updates |-> <<>>,
     weekRecord |-> {}, result |-> Success("")]

EditFixed ==
    <<before, call, failed, prevClean, faulty, sync, student, added, op,
      bucket, worker, auth, rival, client>>

EditInit ==
    \E aW \in {{2}, {1, 2}} :
        /\ db = WithUpdatedAt(InitDb({1}, 1, 1, "T desc", aW))
        /\ before = db
        /\ call = NoCall
        /\ result = Success("")
        /\ failed = {}
        /\ prevClean = FALSE
        /\ runs = 0
        /\ faulty = FALSE
        /\ sync = SyncIdle
        /\ student = StudentIdle
        /\ added = {}
        /\ op = NoOp
        /\ bucket = {}
        /\ worker = WorkerIdle
        /\ auth = AuthIdle
        /\ rival = RivalIdle
        /\ edit = [e \in Editors |-> EditorIdle]
        /\ client = ClientIdle

\* The editor opens a week: getWeek returns its updatedAt.
EditLoad(e) ==
    /\ edit[e].pc = "idle"
    /\ edit[e].loaded = {}
    /\ \E w \in { x \in db.weeks : x.module_id = EditModule } :
          edit' = [edit EXCEPT ![e].weekId = w.week_number,
                               ![e].loaded = {w.updated_at}]
    /\ UNCHANGED <<db, result, runs, EditFixed>>

\* updateWeek up to the optimistic-locking check: the week record is read,
\* and the call returns CONFLICT when the record is newer than expected.
EditFetch(e) ==
    /\ edit[e].pc = "idle"
    /\ edit[e].loaded # {}
    /\ \E u \in EditUpdates(e), expected \in BOOLEAN :
          LET updates == IF expected
                         THEN u @@ [expectedUpdatedAt |-> TheRow(edit[e].loaded)]
                         ELSE u
              weekRecord == WeekRecord(db, EditModule, edit[e].weekId)
              started == [edit[e] EXCEPT !.updates = updates,
                                         !.weekRecord = weekRecord]
          IN IF weekRecord = {}
             THEN LET r == Fail(db, "Week not found", "NOT_FOUND")
                  IN /\ db' = r.db
                     /\ result' = r.result
                     /\ edit' = [edit EXCEPT ![e] = [started EXCEPT
                                    !.pc = "done", !.result = r.result]]
             ELSE IF /\ "expectedUpdatedAt" \in DOMAIN updates
                     /\ GetTime(TheRow(weekRecord).updated_at)
                          > GetTime(updates.expectedUpdatedAt)
             THEN LET r == Fail(db, "This week was modified by another user. Please reload and try again.",
                                "CONFLICT")
                  IN /\ db' = r.db
                     /\ result' = r.result
                     /\ edit' = [edit EXCEPT ![e] = [started EXCEPT
                                    !.pc = "done", !.result = r.result]]
             ELSE /\ edit' = [edit EXCEPT ![e] = [started EXCEPT !.pc = "week"]]
                  /\ UNCHANGED <<db, result>>
    /\ runs' = runs + 1
    /\ UNCHANGED EditFixed

\* The week's basic info: one UPDATE by row id, when dbUpdates has a key.
EditWeek(e) ==
    /\ edit[e].pc = "week"
    /\ LET dbUpdates == DbUpdates(edit[e].updates)
           weekRow == TheRow(edit[e].weekRecord)
           current == { w \in db.weeks : w.id = weekRow.id }
       IN IF DOMAIN dbUpdates # {} /\ current # {}
          THEN \E now \in UpdateTimes(TheRow(current)) :
                   db' = UpdateWeekRow(db, weekRow.id, dbUpdates, now)
          ELSE db' = db
    /\ edit' = [edit EXCEPT ![e].pc = "pages"]
    /\ UNCHANGED <<result, runs, EditFixed>>

\* The pages, when given, and the result of the call.
EditPagesStep(e) ==
    /\ edit[e].pc = "pages"
    /\ db' = IF "pages" \in DOMAIN edit[e].updates
             THEN UpdateWeekPages(db, TheRow(edit[e].weekRecord).id,
                                  edit[e].updates.pages)
             ELSE db
    /\ result' = Success("Week updated successfully")
    /\ edit' = [edit EXCEPT ![e].pc = "done", ![e].result = result']
    /\ UNCHANGED <<runs, EditFixed>>

EditNext ==
    \E e \in Editors : EditLoad(e) \/ EditFetch(e) \/ EditWeek(e)
                         \/ EditPagesStep(e)

EditSpec == EditInit /\ [][EditNext]_vars

\* ---- C34 ----

\* The course tables: everything but the error log and the id sequences.
CourseData(d) ==
    <<d.modules, d.module_zoom_info, d.weeks, d.pages, d.questions,
      d.resources, d.videos, d.discussion_posts, d.progress>>

Returned(e, code) ==
    /\ edit[e].pc = "done"
    /\ \E x \in edit[e].result.error : x.code = code

Applied(e) == edit[e].pc = "done" /\ edit[e].result.success

\* Both editors have saved the week they loaded, with the timestamp of the
\* same version of it.
SavedSameVersion ==
    /\ \A e \in Editors :
          edit[e].pc = "done" /\ "expectedUpdatedAt" \in DOMAIN edit[e].updates
    /\ edit["e1"].weekId = edit["e2"].weekId
    /\ edit["e1"].updates.expectedUpdatedAt = edit["e2"].updates.expectedUpdatedAt

\* A call that finds the week's updated_at a millisecond or more later than
\* expectedUpdatedAt returns CONFLICT and leaves the course tables alone.
ConflictWritesNoCourseData ==
    [][\A e \in Editors :
          (/\ edit[e].pc = "idle"
           /\ edit'[e].pc = "done"
           /\ edit'[e] # edit[e]
           /\ edit'[e].weekRecord # {}
           /\ "expectedUpdatedAt" \in DOMAIN edit'[e].updates
           /\ GetTime(TheRow(edit'[e].weekRecord).updated_at)
                > GetTime(edit'[e].updates.expectedUpdatedAt))
          => /\ \E x \in edit'[e].result.error : x.code = "CONFLICT"
             /\ CourseData(db') = CourseData(db)]_vars

\* Both saves of the same version were applied.
BothApplied == SavedSameVersion /\ \A e \in Editors : Applied(e)

\* Saves of the same version that changed the week's title, one call after
\* the other and a millisecond apart: the second one returned CONFLICT.
SecondSaveConflicts == SavedSameVersion /\ \E e \in Editors : Returned(e, "CONFLICT")

\* C34: of two editors who loaded the same version of a week and both save
\* with that version's timestamp, at most one save is applied and the other
\* one returns CONFLICT, however their storage calls interleave.
C34_OneOfTwoSavesApplied ==
    SavedSameVersion => \E e \in Editors : Returned(e, "CONFLICT")

\* Both saves were applied although each editor changed the title: both
\* read the week record before either wrote it.
BothReadThenBothWrote ==
    /\ BothApplied
    /\ \A e \in Editors :
          /\ "title" \in DOMAIN edit[e].updates
          /\ TheRow(edit[e].weekRecord).updated_at
               = edit[e].updates.expectedUpdatedAt

\* Both saves were applied one call after the other: the first one changed
\* pages only, which leaves the week's updated_at as it was.
PagesOnlySaveUnnoticed ==
    /\ BothApplied
    /\ \A w \in db.weeks :
          (w.module_id = EditModule /\ w.week_number = edit["e1"].weekId)
             => w.updated_at = edit["e1"].updates.expectedUpdatedAt
    /\ \E e \in Editors : "pages" \in DOMAIN edit[e].updates

\* ---- C35 ----

\* The editor's step is the pages part of an updateWeek call with pages.
SavesPages(e) ==
    /\ edit[e].pc = "pages"
    /\ edit'[e].pc = "done"
    /\ "pages" \in DOMAIN edit[e].updates

\* The new question count of page number i: none when the page's entry has
\* no questions property (its questions are left alone).
NewQuestionCount(pages, i) ==
    IF "questions" \in DOMAIN pages[i] THEN {Len(pages[i].questions)} ELSE {}

\* Question q of page p is within the new counts.
Remains(pages, p, q) ==
    /\ p.page_number <= Len(pages)
    /\ \A c \in NewQuestionCount(pages, p.page_number) : q.question_number <= c

\* The questions of the week before the step, each with its page.
QuestionsOfWeek(d, weekRowId) ==
    { <<p, q>> \in d.pages \X d.questions :
        p.week_id = weekRowId /\ q.page_id = p.id }

KeepsQuestionsInPlace(e) ==
    LET pages == edit[e].updates.pages
        weekRowId == TheRow(edit[e].weekRecord).id
    IN /\ \A pq \in QuestionsOfWeek(db, weekRowId) :
             IF Remains(pages, pq[1], pq[2])
             THEN /\ \E q2 \in db'.questions :
                        /\ q2.id = pq[2].id
                        /\ q2.page_id = pq[2].page_id
                        /\ q2.question_number = pq[2].question_number
                  /\ \A o \in db.discussion_posts :
                        o.question_id = pq[2].id => o \in db'.discussion_posts
                  /\ \E p2 \in db'.pages :
                        p2.id = pq[1].id /\ p2.page_number = pq[1].page_number
             ELSE TRUE
       /\ \A p \in db.pages :
             (\A p2 \in db'.pages : p2.id # p.id)
                => p.week_id = weekRowId /\ p.page_number > Len(pages)
       /\ \A q \in db.questions :
             (\A q2 \in db'.questions : q2.id # q.id)
                => \E pq \in QuestionsOfWeek(db, weekRowId) :
                      pq[2] = q /\ ~ Remains(pages, pq[1], pq[2])
       /\ \A o \in db.discussion_posts :
             o \notin db'.discussion_posts
                => \A q2 \in db'.questions : q2.id # o.question_id

\* C35: updateWeek with pages updates pages and questions in place: a
\* question within the new question count of a page that remains keeps its
\* row and all its discussion posts; only questions beyond a page's new
\* question count and pages beyond the new page count are deleted.
C35_PagesUpdatedInPlace ==
    [][\A e \in Editors : SavesPages(e) => KeepsQuestionsInPlace(e)]_vars

\* A save has removed a page or a question of the week, and a question of
\* the week that had posts before is still there with its posts, its text
\* rewritten.
C35_Witness ==
    \E e \in Editors :
        /\ Applied(e) /\ "pages" \in DOMAIN edit[e].updates
        /\ \E q \in before.questions : \A q2 \in db.questions : q2.id # q.id
        /\ \E pq \in QuestionsOfWeek(db, TheRow(edit[e].weekRecord).id) :
              /\ pq[2] \notin before.questions
              /\ \E q \in before.questions : q.id = pq[2].id
              /\ \E o \in db.discussion_posts :
                    o.question_id = pq[2].id /\ o \in before.discussion_posts

(***************************************************************************)
(* createWeek, one storage call at a time, by two admins on the template.  *)
(***************************************************************************)
CreateModuleId == "m1"

\* upsert(payload, {onConflict: 'module_id,week_number'}).select().single():
\* the row with the payload's module and week number takes the payload's
\* columns and keeps its id; without such a row the payload is inserted.
UpsertWeek(d, payload) ==
    LET old == { w \in d.weeks : /\ w.module_id = payload.module_id
                                 /\ w.week_number = payload.week_number }
    IN IF old = {}
       THEN [db |-> Insert(d, "weeks", << payload >>),
             week |-> InsertedRows(<< payload >>, d.seq.weeks)]
       ELSE [db |-> [d EXCEPT !.weeks = { IF w \in old THEN payload @@ w ELSE w
                                           : w \in @ }],
             week |-> { payload @@ w : w \in old }]

\* weekData of an admin: its own title, and nP pages.
CreatorWeekData(e, nP) ==
    [title |-> "New week " \o e, description |-> "", unlockDate |-> "",
     pages |-> [i \in 1..nP |->
                  [title |-> "Page " \o ToString(i) \o " " \o e,
                   type |-> "reading", content |-> "",
                   questions |-> << [text |-> "Question " \o e] >>,
                   resources |-> <<>>, videos |-> <<>>]]]

CreatorIdle ==
    [pc |-> "idle", weekData |-> <<>>, weekNumber |-> 1, week |-> {}, i |-> 1,
     result |-> Success("")]

CreateInit ==
    \E tW \in SUBSET Weeks, tP \in 0..1 :
        /\ db = InitDb(tW, tP, 1, "T desc", {1})
        /\ before = db
        /\ call = NoCall
        /\ result = Success("")
        /\ failed = {}
        /\ prevClean = FALSE
        /\ runs = 0
        /\ faulty = FALSE
        /\ sync = SyncIdle
        /\ student = StudentIdle
        /\ added = {}
        /\ op = NoOp
        /\ bucket = {}
        /\ worker = WorkerIdle
        /\ auth = AuthIdle
        /\ rival = RivalIdle
        /\ edit = [e \in Editors |-> CreatorIdle]
        /\ client = ClientIdle

\* createWeek: the current highest week number is read.
CreateReadMax(e) ==
    /\ edit[e].pc = "idle"
    /\ \E nP \in 0..MaxItems :
          LET numbers == { w.week_number :
                             w \in { x \in db.weeks : x.module_id = CreateModuleId } }
              weekNumber == IF numbers = {} THEN 1
                            ELSE 1 + CHOOSE n \in numbers : \A k \in numbers : k <= n
          IN edit' = [edit EXCEPT ![e].pc = "upsert",
                                  ![e].weekData = CreatorWeekData(e, nP),
                                  ![e].weekNumber = weekNumber]
    /\ runs' = runs + 1
    /\ UNCHANGED <<db, result, EditFixed>>

\* The week row is upserted on (module_id, week_number).
CreateUpsert(e) ==
    /\ edit[e].pc = "upsert"
    /\ LET weekData == edit[e].weekData
           r == UpsertWeek(db, [module_id |-> CreateModuleId,
                                week_number |-> edit[e].weekNumber,
                                title |-> weekData.title,
                                description |-> OrNull(weekData.description),
                                unlock_date |-> OrNull(weekData.unlockDate)])
       IN /\ db' = r.db
          /\ edit' = [edit EXCEPT ![e].pc = "pages", ![e].week = r.week,
                                  ![e].i = 1]
    /\ UNCHANGED <<result, runs, EditFixed>>

\* createPage(week.id, i + 1, pageData) for the next page of weekData.
CreatePageStep(e) ==
    /\ edit[e].pc = "pages"
    /\ edit[e].i <= Len(edit[e].weekData.pages)
    /\ db' = CreatePage([db |-> db, failed |-> {}, thrown |-> FALSE],
                        TheRow(edit[e].week).id, edit[e].i,
                        edit[e].weekData.pages[edit[e].i],
                        edit[e].weekNumber, {}).db
    /\ edit' = [edit EXCEPT ![e].i = @ + 1]
    /\ UNCHANGED <<result, runs, EditFixed>>

\* return this.success({id: week.week_number, ...}, 'Week created successfully')
CreateReturn(e) ==
    /\ edit[e].pc = "pages"
    /\ edit[e].i > Len(edit[e].weekData.pages)
    /\ LET week == TheRow(edit[e].week)
       IN result' = [Success("Week created successfully") EXCEPT
                        !.data = [id |-> week.week_number,
                                  moduleId |-> week.module_id,
                                  title |-> week.title,
                                  description |-> week.description,
                                  unlockDate |-> week.unlock_date]]
    /\ edit' = [edit EXCEPT ![e].pc = "done", ![e].result = result']
    /\ UNCHANGED <<db, runs, EditFixed>>

CreateNext ==
    \E e \in Editors : CreateReadMax(e) \/ CreateUpsert(e) \/ CreatePageStep(e)
                         \/ CreateReturn(e)

CreateSpec == CreateInit /\ [][CreateNext]_vars

\* ---- C36 ----


BothCreated == \A e \in Editors : Applied(e)

\* The week the call of e returned is a row with the title and the pages of
\* e's weekData.
OwnWeekStored(e) ==
    \E w \in WeeksOf(db, CreateModuleId) :
        /\ w.week_number = edit[e].result.data.id
        /\ w.title = edit[e].weekData.title
        /\ \A i \in 1..Len(edit[e].weekData.pages) :
              \E p \in db.pages : /\ p.week_id = w.id /\ p.page_number = i
                                  /\ p.title = edit[e].weekData.pages[i].title

\* UNIQUE(module_id, week_number) holds throughout.
NoWeekNumberShared ==
    \A w1, w2 \in db.weeks :
        (w1.module_id = w2.module_id /\ w1.week_number = w2.week_number)
           => w1 = w2

\* Both calls returned the same week number.
SameWeekReturned ==
    /\ BothCreated
    /\ edit["e1"].result.data.id = edit["e2"].result.data.id

\* The two calls ran one after the other and made two weeks.
TwoWeeksCreated ==
    /\ BothCreated
    /\ Cardinality(WeeksOf(db, CreateModuleId))
         = Cardinality(WeeksOf(before, CreateModuleId)) + 2

\* C36: two concurrent createWeek calls on one module that both return
\* success leave the module with two more weeks, with distinct week numbers,
\* each with its own title and pages; no two weeks of a module share a week
\* number and neither call overwrites the other's week.
C36_ConcurrentCreateWeekMakesTwoWeeks ==
    /\ NoWeekNumberShared
    /\ BothCreated =>
          /\ Cardinality(WeeksOf(db, CreateModuleId))
               = Cardinality(WeeksOf(before, CreateModuleId)) + 2
          /\ edit["e1"].result.data.id # edit["e2"].result.data.id
          /\ \A e \in Editors : OwnWeekStored(e)

(***************************************************************************)
(* withRetry.  A string is the sequence of its characters, so that         *)
(* String(code).includes(c) is computed; a thrown value is {} (null or     *)
(* undefined) or {error}, an error having a code (<<>> when it has none),  *)
(* a numeric status (0 when it has none) and a message.                    *)
(***************************************************************************)
maxRetries == 3

baseDelay == 1000

retryableCodes ==
    { <<"P", "G", "R", "S", "T", "3", "0", "1">>, <<"5", "0", "0">>,
      <<"5", "0", "2">>, <<"5", "0", "3">>, <<"5", "0", "4">>,
      <<"N", "E", "T", "W", "O", "R", "K", "_", "E", "R", "R", "O", "R">> }

\* s.includes(c)
Includes(s, c) ==
    \E k \in 0..(Len(s) - Len(c)) : SubSeq(s, k + 1, k + Len(c)) = c

\* String(n) of a natural number.
RECURSIVE Digits(_)
Digits(n) ==
    LET d == << <<"0">>, <<"1">>, <<"2">>, <<"3">>, <<"4">>, <<"5">>, <<"6">>,
               <<"7">>, <<"8">>, <<"9">> >>
    IN IF n < 10 THEN d[n + 1] ELSE Digits(n \div 10) \o d[(n % 10) + 1]

\* String(error.code || error.status || '')
CodeString(error) ==
    IF error.code # <<>> THEN error.code
    ELSE IF error.status # 0 THEN Digits(error.status)
    ELSE <<>>

isRetryableError(thrown) ==
    IF thrown = {} THEN FALSE
    ELSE LET error == TheRow(thrown)
         IN \E c \in retryableCodes :
                \/ Includes(CodeString(error), c)
                \/ Includes(error.message, <<"n", "e", "t", "w", "o", "r", "k">>)
                \/ Includes(error.message, <<"f", "e", "t", "c", "h">>)

\* What an operation can throw.
ThrownValues ==
    { {},
      {[code |-> <<"P", "G", "R", "S", "T", "3", "0", "1">>, status |-> 0,
        message |-> <<"J", "W", "T">>]},
      {[code |-> <<"2", "3", "5", "0", "5">>, status |-> 0,
        message |-> <<"d", "u", "p">>]},
      {[code |-> <<"4", "2", "5", "0", "1">>, status |-> 503,
        message |-> <<>>]},
      {[code |-> <<>>, status |-> 503, message |-> <<>>]},
      {[code |-> <<>>, status |-> 404, message |-> <<>>]},
      {[code |-> <<>>, status |-> 0,
        message |-> <<"n", "o", " ", "n", "e", "t", "w", "o", "r", "k">>]},
      {[code |-> <<>>, status |-> 0,
        message |-> <<"f", "e", "t", "c", "h", "e", "d">>]} }

RECURSIVE Pow(_, _)
Pow(b, n) == IF n = 0 THEN 1 ELSE b * Pow(b, n - 1)

\* delayMs grows by one baseDelay per attempt (not what the code does).
DelayMsLinear(attempt) == baseDelay * (attempt + 1)

\* const delayMs = RETRY_CONFIG.baseDelay * Math.pow(2, attempt)
DelayMs(attempt) == baseDelay * Pow(2, attempt)

\* A withRetry call: its loop variable, what the operation has thrown so
\* far, the delays it has waited, and how it ended.
RetryIdle ==
    [pc |-> "idle", attempt |-> 0, invoked |-> 0, thrown |-> <<>>,
     delays |-> <<>>, lastError |-> {}, returned |-> NULL, rethrown |-> {}]

NotClient ==
    <<db, before, call, result, failed, prevClean, faulty, sync, student,
      added, op, bucket, worker, auth, rival, edit>>

RetryInit ==
    /\ db = InitDb({1}, 1, 1, "T desc", {})
    /\ before = db
    /\ call = NoCall
    /\ result = Success("")
    /\ failed = {}
    /\ prevClean = FALSE
    /\ runs = 0
    /\ faulty = FALSE
    /\ sync = SyncIdle
    /\ student = StudentIdle
    /\ added = {}
    /\ op = NoOp
    /\ bucket = {}
    /\ worker = WorkerIdle
    /\ auth = AuthIdle
    /\ rival = RivalIdle
    /\ edit = EditIdle
    /\ client = RetryIdle

\* withRetry(operation, context) is called: lastError = null, attempt = 0.
RetryCall ==
    /\ client.pc \in {"idle", "returned", "thrown"}
    /\ runs < MaxRuns
    /\ client' = [RetryIdle EXCEPT !.pc = "attempt"]
    /\ runs' = runs + 1
    /\ UNCHANGED NotClient

\* await operation() returns: withRetry returns the result.
RetryOperationReturns ==
    /\ client.pc = "attempt"
    /\ \E data \in {"rows", "none"} :
          client' = [client EXCEPT !.pc = "returned", !.invoked = @ + 1,
                                   !.returned = data]
    /\ UNCHANGED <<runs, NotClient>>

\* await operation() throws: the error is rethrown when it is not retryable
\* or this was the last attempt, else the delay is computed and awaited.
RetryOperationThrows ==
    /\ client.pc = "attempt"
    /\ \E error \in ThrownValues :
          LET caught == [client EXCEPT !.invoked = @ + 1,
                                       !.thrown = Append(@, error),
                                       !.lastError = error]
          IN client' =
               IF ~ isRetryableError(error) \/ client.attempt = maxRetries
               THEN [caught EXCEPT !.pc = "thrown", !.rethrown = error]
               ELSE [caught EXCEPT !.pc = "delay",
                                   !.delays = Append(@, DelayMs(client.attempt))]
    /\ UNCHANGED <<runs, NotClient>>

\* The timer of delay(delayMs) fires: attempt++ and the loop goes on.  The
\* loop condition attempt <= maxRetries holds whenever this is reached;
\* the throw after the loop is there for when it does not.
RetryDelayOver ==
    /\ client.pc = "delay"
    /\ client' = IF client.attempt + 1 <= maxRetries
                 THEN [client EXCEPT !.pc = "attempt", !.attempt = @ + 1]
                 ELSE [client EXCEPT !.pc = "thrown", !.attempt = @ + 1,
                                     !.rethrown = client.lastError]
    /\ UNCHANGED <<runs, NotClient>>

RetryNext ==
    RetryCall \/ RetryOperationReturns \/ RetryOperationThrows \/ RetryDelayOver

\* An operation that was invoked settles, and a timer that was set fires.
RetrySpec ==
    /\ RetryInit /\ [][RetryNext]_vars
    /\ WF_vars(RetryOperationReturns \/ RetryOperationThrows)
    /\ WF_vars(RetryDelayOver)

\* ---- C37 ----

RetrySettled == client.pc \in {"returned", "thrown"}

\* Invocation k of the operation threw a retryable error.
ThrewRetryable(k) == isRetryableError(client.thrown[k])

RetrySafe ==
    /\ client.invoked <= 1 + maxRetries
    /\ Len(client.thrown) <= client.invoked
    \* an invocation follows only a retryable error
    /\ \A k \in 1..Len(client.thrown) :
          (k < client.invoked \/ client.pc \in {"delay", "attempt"})
             => ThrewRetryable(k)
    \* an error that is not retryable ends the call at once, rethrown
    /\ \A k \in 1..Len(client.thrown) :
          ~ ThrewRetryable(k)
             => /\ k = client.invoked
                /\ client.pc = "thrown"
                /\ client.rethrown = client.thrown[k]
    /\ client.pc = "thrown"
          => /\ Len(client.thrown) = client.invoked
             /\ client.rethrown = client.thrown[client.invoked]
             /\ ~ ThrewRetryable(client.invoked)
                   \/ client.invoked = 1 + maxRetries
    \* the first result is returned
    /\ client.pc = "returned"
          => /\ Len(client.thrown) = client.invoked - 1
             /\ client.returned # NULL
    \* one delay per retry, doubling from baseDelay
    /\ client.pc = "attempt" => Len(client.delays) = client.invoked
    /\ \A k \in 1..Len(client.delays) :
          client.delays[k] = baseDelay * Pow(2, k - 1)

\* C37: withRetry invokes the operation at most 4 times, retries only after
\* an error classified as retryable, rethrows a non-retryable error after
\* the attempt that raised it, returns the first successful result, and
\* always terminates; the delay before the k-th retry is
\* baseDelay * 2^(k-1).
C37_WithRetryBoundedAndTerminates ==
    /\ [](RetrySafe /\ client.invoked <= 4)
    /\ (client.pc # "idle") ~> RetrySettled

\* The operation succeeded at its fourth invocation, after delays of 1, 2
\* and 4 seconds.
C37_Witness ==
    /\ client.pc = "returned"
    /\ client.invoked = 4
    /\ client.delays = <<1000, 2000, 4000>>

\* The fourth invocation threw a retryable error, which was rethrown.
RetriesExhausted ==
    /\ client.pc = "thrown"
    /\ client.invoked = 4
    /\ isRetryableError(client.rethrown)

(***************************************************************************)
(* ErrorHandler.  An error record is a number: 1, 2, ... in the order of   *)
(* the queueError calls, and 101, 102, ... for the records a previous      *)
(* session left in localStorage under 'lectern_error_queue'.  A            *)
(* logToSupabase call, with its retries, is a frame  [pc, errorData,       *)
(* retryCount]; a processQueue activation is named by the record whose     *)
(* queueError call started it.  Supabase is flaky (an insert fails or not) *)
(* or down (every insert fails); localStorage takes writes or throws on    *)
(* them.                                                                   *)
(***************************************************************************)
handlerMaxRetries == 3

StoredErrorsKept == 50

OldRecord(k) == 100 + k

OldRecords(n) == [k \in 1..n |-> OldRecord(k)]

\* storedErrors.slice(-50)
LastStored(storedErrors) ==
    IF Len(storedErrors) <= StoredErrorsKept THEN storedErrors
    ELSE SubSeq(storedErrors, Len(storedErrors) - StoredErrorsKept + 1,
                Len(storedErrors))

NoFrame == [pc |-> "none", errorData |-> 0, retryCount |-> 0]

NewFrame(errorData) == [pc |-> "insert", errorData |-> errorData, retryCount |-> 0]

HandlerIdle ==
    [errorQueue |-> <<>>, isProcessing |-> FALSE, loops |-> <<>>,
     flush |-> [pc |-> "idle", storedErrors |-> <<>>, idx |-> 1,
                frame |-> NoFrame],
     storage |-> <<>>, storageThrows |-> FALSE, supabase |-> "flaky",
     sent |-> <<>>, dropped |-> {}, undelivered |-> {}]

\* storeLocally: the record is appended and the last 50 are kept; a
\* localStorage error is ignored, and the record with it.
StoreLocally(c, errorData) ==
    IF c.storageThrows
    THEN [c EXCEPT !.dropped = @ \cup {errorData}]
    ELSE [c EXCEPT !.storage = LastStored(Append(@, errorData))]

\* if (retryCount < this.maxRetries)
RetryAllowed(retryCount) == retryCount < handlerMaxRetries

\* One insert of logToSupabase(errorData, retryCount) and what follows it
\* without an await:  [frame, client, db].
LogToSupabase(frame, c, d, inserted) ==
    IF inserted
    THEN [frame |-> [frame EXCEPT !.pc = "resolved"], client |-> c,
          db |-> Insert(d, "error_logs",
                        << [error_type |-> "uncaught_error",
                            error_message |-> frame.errorData,
                            user_id |-> NULL] >>)]
    ELSE IF RetryAllowed(frame.retryCount)
    THEN [frame |-> [frame EXCEPT !.pc = "delay"], client |-> c, db |-> d]
    ELSE [frame |-> [frame EXCEPT !.pc = "resolved"],
          client |-> StoreLocally([c EXCEPT !.undelivered =
                                               @ \cup {frame.errorData}],
                                  frame.errorData),
          db |-> d]

\* The insert outcomes Supabase can give.
InsertOutcomes == IF client.supabase = "down" THEN {FALSE} ELSE BOOLEAN

\* processQueue up to its first await, on the client c: with an empty
\* queue isProcessing is cleared; else it is set, the first record is
\* shifted and its logToSupabase begins.
ProcessQueue(c, starter) ==
    IF c.errorQueue = <<>>
    THEN [c EXCEPT !.isProcessing = FALSE]
    ELSE [c EXCEPT !.isProcessing = TRUE,
                   !.errorQueue = Tail(@),
                   !.loops = @ @@ (starter :> NewFrame(Head(c.errorQueue))),
                   !.sent = Append(@, Head(c.errorQueue))]

\* queueError without the isProcessing test (not what the code does).
QueueErrorAlways(c, errorData) ==
    ProcessQueue([c EXCEPT !.errorQueue = Append(@, errorData)], errorData)

\* queueError: the record is pushed, and processQueue is called unless a
\* loop is processing.
QueueErrorCall(c, errorData) ==
    LET c1 == [c EXCEPT !.errorQueue = Append(@, errorData)]
    IN IF ~ c1.isProcessing THEN ProcessQueue(c1, errorData) ELSE c1

HandlerFixed ==
    <<before, call, result, failed, prevClean, faulty, sync, student, added,
      op, bucket, worker, auth, rival, edit>>

\* An error reaches the handler.
QueueError ==
    /\ client.flush.pc # "idle"
    /\ runs < MaxRuns
    /\ client' = QueueErrorCall(client, runs + 1)
    /\ runs' = runs + 1
    /\ UNCHANGED <<db, HandlerFixed>>

\* The insert of a loop's logToSupabase settles.
QueueInsert(l) ==
    /\ client.loops[l].pc = "insert"
    /\ \E inserted \in InsertOutcomes :
          LET r == LogToSupabase(client.loops[l], client, db, inserted)
          IN /\ client' = [r.client EXCEPT !.loops[l] = r.frame]
             /\ db' = r.db
    /\ UNCHANGED <<runs, HandlerFixed>>

\* The retry timer fires: logToSupabase(errorData, retryCount + 1).
QueueDelayOver(l) ==
    /\ client.loops[l].pc = "delay"
    /\ client' = [client EXCEPT !.loops[l].pc = "insert",
                                !.loops[l].retryCount = @ + 1]
    /\ UNCHANGED <<db, runs, HandlerFixed>>

\* The loop goes on after its await: the next record, or the end of the
\* loop, where isProcessing is cleared.
QueueLoop(l) ==
    /\ client.loops[l].pc = "resolved"
    /\ client' =
         IF Len(client.errorQueue) > 0
         THEN [client EXCEPT !.errorQueue = Tail(@),
                             !.loops[l] = NewFrame(Head(client.errorQueue)),
                             !.sent = Append(@, Head(client.errorQueue))]
         ELSE [client EXCEPT !.isProcessing = FALSE, !.loops[l] = NoFrame]
    /\ UNCHANGED <<db, runs, HandlerFixed>>

QueueSteps ==
    \/ QueueError
    \/ \E l \in DOMAIN client.loops :
          QueueInsert(l) \/ QueueDelayOver(l) \/ QueueLoop(l)

QueueFair ==
    \A l \in 1..MaxRuns :
       /\ WF_vars(l \in DOMAIN client.loops /\ QueueInsert(l))
       /\ WF_vars(l \in DOMAIN client.loops /\ QueueDelayOver(l))
       /\ WF_vars(l \in DOMAIN client.loops /\ QueueLoop(l))

\* A page that has loaded with nothing in localStorage: flushLocalErrors
\* has returned at once.
QueueInit ==
    /\ db = InitDb({1}, 1, 1, "T desc", {})
    /\ before = db
    /\ call = NoCall
    /\ result = Success("")
    /\ failed = {}
    /\ prevClean = FALSE
    /\ runs = 0
    /\ faulty = FALSE
    /\ sync = SyncIdle
    /\ student = StudentIdle
    /\ added = {}
    /\ op = NoOp
    /\ bucket = {}
    /\ worker = WorkerIdle
    /\ auth = AuthIdle
    /\ rival = RivalIdle
    /\ edit = EditIdle
    /\ \E throws \in BOOLEAN :
          client = [HandlerIdle EXCEPT !.flush.pc = "done",
                                       !.storageThrows = throws]

QueueSpec == QueueInit /\ [][QueueSteps]_vars /\ QueueFair

\* ---- C38 ----

ActiveLoops == { l \in DOMAIN client.loops : client.loops[l].pc # "none" }

Queued(errorData) == runs >= errorData

InErrorLogs(errorData) ==
    \E r \in db.error_logs : r.error_message = errorData

InLocalQueue(errorData) ==
    \E k \in 1..Len(client.storage) : client.storage[k] = errorData

\* One loop at most, FIFO sends, three retries at most, and a record goes
\* to localStorage only when its fourth insert has failed.
QueueSafe ==
    /\ Cardinality(ActiveLoops) <= 1
    /\ client.sent = [k \in 1..Len(client.sent) |-> k]
    /\ \A l \in DOMAIN client.loops : client.loops[l].retryCount <= 3
    /\ \A e \in 1..MaxRuns :
          (InLocalQueue(e) \/ e \in client.dropped) => e \in client.undelivered
    /\ \A e \in 1..MaxRuns : e \in client.undelivered => ~ InErrorLogs(e)

\* Every queued record is inserted into error_logs, or is stored in the
\* local queue, or storeLocally has dropped it because localStorage threw.
C38_QueuedErrorsSettle ==
    /\ []QueueSafe
    /\ \A e \in 1..MaxRuns :
          Queued(e) ~> (InErrorLogs(e) \/ InLocalQueue(e) \/ e \in client.dropped)

\* C38: at most one processQueue loop is active, queued errors are sent in
\* FIFO order one at a time, and every error passed to queueError is
\* eventually inserted into error_logs or stored in the local fallback
\* queue after at most 3 retries, also when queued during a send.
C38_QueuedErrorsLoggedOrStored ==
    /\ []QueueSafe
    /\ \A e \in 1..MaxRuns :
          Queued(e) ~> (InErrorLogs(e) \/ InLocalQueue(e))

\* The second error was queued while the first was being sent: one loop
\* has sent both, the first went to localStorage after three retries and
\* the second was inserted.
C38_Witness ==
    /\ DOMAIN client.loops = {1}
    /\ client.sent = <<1, 2>>
    /\ InLocalQueue(1)
    /\ InErrorLogs(2)

(***************************************************************************)
(* flushLocalErrors, called once when the script loads, next to the queue. *)
(***************************************************************************)
\* The records a previous session left behind.  With many of them Supabase
\* is down for the session.
FlushInit ==
    /\ db = InitDb({1}, 1, 1, "T desc", {})
    /\ before = db
    /\ call = NoCall
    /\ result = Success("")
    /\ failed = {}
    /\ prevClean = FALSE
    /\ runs = 0
    /\ faulty = FALSE
    /\ sync = SyncIdle
    /\ student = StudentIdle
    /\ added = {}
    /\ op = NoOp
    /\ bucket = {}
    /\ worker = WorkerIdle
    /\ auth = AuthIdle
    /\ rival = RivalIdle
    /\ edit = EditIdle
    /\ \E n \in {0, 1, 2, StoredErrorsKept},
          throws \in BOOLEAN :
          client = [HandlerIdle EXCEPT
                       !.storage = OldRecords(n),
                       !.storageThrows = throws,
                       !.supabase = IF n > 2 THEN "down" ELSE "flaky"]

\* flushLocalErrors reads the stored records and returns when there are
\* none, else begins with the first one.
FlushStart ==
    /\ client.flush.pc = "idle"
    /\ LET storedErrors == client.storage
       IN client' =
            IF Len(storedErrors) = 0
            THEN [client EXCEPT !.flush.pc = "done"]
            ELSE [client EXCEPT !.flush = [pc |-> "sending",
                                           storedErrors |-> storedErrors,
                                           idx |-> 1,
                                           frame |-> NewFrame(storedErrors[1])]]
    /\ UNCHANGED <<db, runs, HandlerFixed>>

FlushInsert ==
    /\ client.flush.pc = "sending"
    /\ client.flush.frame.pc = "insert"
    /\ \E inserted \in InsertOutcomes :
          LET r == LogToSupabase(client.flush.frame, client, db, inserted)
          IN /\ client' = [r.client EXCEPT !.flush.frame = r.frame]
             /\ db' = r.db
    /\ UNCHANGED <<runs, HandlerFixed>>

FlushDelayOver ==
    /\ client.flush.pc = "sending"
    /\ client.flush.frame.pc = "delay"
    /\ client' = [client EXCEPT !.flush.frame.pc = "insert",
                                !.flush.frame.retryCount = @ + 1]
    /\ UNCHANGED <<db, runs, HandlerFixed>>

\* The for loop goes on after its await: the next stored record, or, after
\* the last one, localStorage.removeItem('lectern_error_queue').
FlushLoop ==
    /\ client.flush.pc = "sending"
    /\ client.flush.frame.pc = "resolved"
    /\ client' =
         IF client.flush.idx < Len(client.flush.storedErrors)
         THEN [client EXCEPT
                 !.flush.idx = @ + 1,
                 !.flush.frame =
                     NewFrame(client.flush.storedErrors[client.flush.idx + 1])]
         ELSE [client EXCEPT !.flush.pc = "done", !.flush.frame = NoFrame,
                             !.storage = <<>>]
    /\ UNCHANGED <<db, runs, HandlerFixed>>

FlushSteps == FlushStart \/ FlushInsert \/ FlushDelayOver \/ FlushLoop

FlushNext == QueueSteps \/ FlushSteps

FlushSpec == FlushInit /\ [][FlushNext]_vars

\* ---- C39 ----

\* The local queue never holds more than 50 records.
LocalQueueCapped == Len(client.storage) <= StoredErrorsKept

\* A record that failed again was put back at the end of a full local
\* queue, and the oldest record was dropped for it.
OldestDroppedFirst ==
    /\ Len(client.storage) = StoredErrorsKept
    /\ client.storage[StoredErrorsKept] = OldRecord(1)
    /\ client.storage[1] = OldRecord(2)

\* The records that exhausted their retries and that localStorage accepted.
KeptUntilLogged ==
    { e \in client.undelivered : e \notin client.dropped /\ ~ InErrorLogs(e) }

\* The flush is over and a record that failed again in it is not stored.
FlushLostRecord ==
    /\ client.flush.pc = "done"
    /\ \E k \in 1..Len(client.flush.storedErrors) :
          /\ client.flush.storedErrors[k] \in KeptUntilLogged
          /\ ~ InLocalQueue(client.flush.storedErrors[k])

\* C39: a record that exhausts its retries stays in the local fallback
\* queue (at most 50 records, oldest dropped first) until it has been
\* logged: flushLocalErrors removes only delivered records, so a record
\* whose delivery fails again during a flush is still stored afterwards.
C39_UndeliveredStayStored ==
    /\ LocalQueueCapped
    /\ Len(client.storage) < StoredErrorsKept
          => \A e \in KeptUntilLogged : InLocalQueue(e)

\* ------------------------------------------------------------------
\* The worker's fetch handler: /backups, /trigger and /download/<filename>
\* behind the admin key (src/unnamed/part_000, fetch).  WorkerSpec is
\* BackupSpec with the requests arriving between the steps of the runs;
\* client holds the last request and the response it was given.
\* ------------------------------------------------------------------

\* env.ADMIN_API_KEY, set as a secret of the worker.
ADMIN_API_KEY == "admin-key"

Bearer(key) == "Bearer " \o key

\* request.headers.get('Authorization'): absent, the key, or another key.
Headers == {NULL, Bearer(ADMIN_API_KEY), Bearer("wrong")}

\* A check that asks only for a header.
AuthorizedAnyHeader(authHeader) == authHeader # NULL

\* !(!authHeader || authHeader !== `Bearer ${env.ADMIN_API_KEY}`)
Authorized(authHeader) ==
    /\ authHeader \notin {NULL, ""}
    /\ authHeader = Bearer(ADMIN_API_KEY)

NoKey == [prefix |-> "", timestamp |-> 0]

MissingKey == [prefix |-> BackupPrefix, timestamp |-> MAX_BACKUPS + MaxRuns + 1]

Request(path, authHeader, filename) ==
    [path |-> path, authHeader |-> authHeader, filename |-> filename]

\* new Response(...): the status, the listing of /backups and the object
\* of /download.
Response(status, backups, object) ==
    [status |-> status, backups |-> backups, object |-> object]

Unauthorized401 == Response(401, <<>>, {})

Exchange(request, response) ==
    [storage |-> <<>>, request |-> request, response |-> response]

NotFetch == <<db, before, call, result, failed, prevClean, runs, faulty,
              sync, student, added, op, auth, rival, edit>>

\* listBackups: the objects under the prefix, newest first.
listBackups(b) == NewestFirst(BucketList(b, BackupPrefix))

\* BACKUP_BUCKET.get(filename): the object, or null.
BucketGet(b, filename) == { o \in b : o.key = filename }

\* GET /backups
BackupsRequest ==
    \E authHeader \in Headers :
        /\ client' = Exchange(Request("/backups", authHeader, NoKey),
                              IF Authorized(authHeader)
                              THEN Response(200, listBackups(bucket), {})
                              ELSE Unauthorized401)
        /\ UNCHANGED <<bucket, worker, NotFetch>>

\* POST /trigger: 401 without the admin key, otherwise the run starts; its
\* response comes when the run is over.
TriggerRequest ==
    \E authHeader \in Headers :
        /\ Resting("trigger")
        /\ IF Authorized(authHeader)
           THEN /\ worker.started < MaxRuns
                /\ worker' = [worker EXCEPT
                                 !.started = @ + 1,
                                 !.run["trigger"] =
                                     [IdleRun EXCEPT !.pc = "createBackup"]]
                /\ client' = Exchange(Request("/trigger", authHeader, NoKey),
                                      Response(0, <<>>, {}))
           ELSE /\ worker' = [worker EXCEPT
                                 !.run["trigger"] =
                                     [IdleRun EXCEPT !.pc = "unauthorized"]]
                /\ client' = Exchange(Request("/trigger", authHeader, NoKey),
                                      Unauthorized401)
        /\ UNCHANGED <<bucket, NotFetch>>

\* The filenames asked for: the newest backup listed, and one never stored.
DownloadNames(b) ==
    {MissingKey} \cup (IF listBackups(b) = <<>> THEN {}
                       ELSE {Head(listBackups(b)).key})

\* GET /download/<filename>
DownloadRequest ==
    \E authHeader \in Headers, filename \in DownloadNames(bucket) :
        /\ client' = Exchange(Request("/download", authHeader, filename),
                              IF ~Authorized(authHeader)
                              THEN Unauthorized401
                              ELSE IF BucketGet(bucket, filename) = {}
                              THEN Response(404, <<>>, {})
                              ELSE Response(200, <<>>,
                                            BucketGet(bucket, filename)))
        /\ UNCHANGED <<bucket, worker, NotFetch>>

WorkerNext ==
    \/ BackupTick
    \/ BackupStart("cron")
    \/ TriggerRequest
    \/ BackupsRequest
    \/ DownloadRequest
    \/ \E h \in Handlers :
        \/ BackupCreate(h)
        \/ BackupPut(h)
        \/ BackupCleanupList(h)
        \/ BackupCleanupDelete(h)
        \/ BackupComplete(h)

\* The bucket is full when the requests begin.
WorkerInit == BackupInit /\ Cardinality(Backups(bucket)) = MAX_BACKUPS

WorkerSpec == WorkerInit /\ [][WorkerNext]_vars

\* ---- C40 ----

Keys(b) == { o.key : o \in b }

\* The run has stored its backup: its filename is set.
Stored(r) == r.filename.prefix = BackupPrefix

\* A run whose export failed has stored nothing and deleted nothing.
FailedRunTouchedNothing ==
    \A h \in Handlers :
        worker.run[h].pc = "failed"
            => /\ worker.run[h].filename = NULL
               /\ worker.run[h].toDelete = <<>>
               /\ worker.run[h].deleted = {}

WithoutAdminKey == /\ "request" \in DOMAIN client
                   /\ client.request.authHeader # Bearer(ADMIN_API_KEY)

\* A request without the admin key is answered 401, with no listing and
\* no object.
UnauthorizedGets401 == WithoutAdminKey => client.response = Unauthorized401

\* The bucket changes only in the put or a delete of a run, an object
\* leaves it only in the cleanup of a run that has stored its backup, and
\* the step in which createBackup throws leaves it as it was.
BucketChangesOnlyInRuns ==
    /\ bucket' # bucket
        => \E h \in Handlers : /\ worker.run[h].pc \in {"put", "delete"}
                               /\ worker'.run[h] # worker.run[h]
    /\ ~(Keys(bucket) \subseteq Keys(bucket'))
        => \E h \in Handlers : /\ worker.run[h].pc = "delete"
                               /\ Stored(worker.run[h])
                               /\ worker'.run[h].deleted # worker.run[h].deleted
    /\ \A h \in Handlers :
        worker.run[h].pc = "createBackup" /\ worker'.run[h].pc = "failed"
            => bucket' = bucket

\* A request without the admin key starts no run and leaves the bucket.
UnauthorizedStartsNothing ==
    client' # client /\ WithoutAdminKey'
        => /\ bucket' = bucket
           /\ worker'.started = worker.started
           /\ \A h \in Handlers : worker'.run[h].pc # "createBackup"
                                      \/ worker'.run[h] = worker.run[h]

\* C40: a run whose export fails writes no backup and deletes none, old
\* backups are deleted only by a run that has stored its new backup, and a
\* request to /trigger, /backups or /download without the admin key gets
\* 401: it creates, lists, returns and deletes nothing.
C40_FailedExportAndUnauthorizedTouchNothing ==
    /\ [](FailedRunTouchedNothing /\ UnauthorizedGets401)
    /\ [][BucketChangesOnlyInRuns /\ UnauthorizedStartsNothing]_vars

\* The cron run failed at its export with the bucket still full, the
\* trigger's run has cleaned up after its put, and a download with a wrong
\* key was refused.
C40_Witness ==
    /\ worker.run["cron"].pc = "failed"
    /\ worker.run["trigger"].pc = "done"
    /\ worker.run["trigger"].deleted # {}
    /\ Cardinality(Backups(bucket)) = MAX_BACKUPS
    /\ "request" \in DOMAIN client
    /\ client.request.path = "/download"
    /\ client.request.authHeader = Bearer("wrong")
    /\ client.request.filename \in Keys(bucket)
    /\ client.response = Unauthorized401

====
